---- MODULE Spec2Model ----
(***************************************************************************)
(* State-machine model of the real-time core of botsapp's backend:         *)
(*   - ConnectionManager (routers/ws.py): presence map and send_to_user    *)
(*   - call lifecycle (services/call_service.py, routers/calls.py,         *)
(*     routers/voice.py)                                                   *)
(*   - send_voip_push (services/call_service.py)                           *)
(*   - the agent loops (services/llm_service_langchain.py,                 *)
(*     services/proactive_service.py)                                      *)
(*   - trigger_reminder (services/reminder_service.py)                     *)
(*   - the voice bridge (routers/voice.py, services/voice_service.py)      *)
(*   - the reminder scheduler and its reload at process start              *)
(*     (services/reminder_service.py, main.py)                             *)
(*   - the proactive trigger and its quota (services/proactive_service.py) *)
(*   - the token handshake of both sockets (utils/auth.py) and the        *)
(*     message loop of the chat socket (routers/ws.py)                     *)
(* Each subsystem has its own next-state relation and specification; the   *)
(* variables of the other subsystems are left unchanged by it.             *)
(* The code runs as cooperative asyncio tasks: the code between two awaits *)
(* is one atomic step, and every await is a point where other tasks run.   *)
(***************************************************************************)
EXTENDS Integers, Sequences, FiniteSets, TLC

\* ------------------------------------------------------------------ bounds
MaxConns == 2          \* websockets opened in one run

Users == {"u1", "u2"}
Conns == 1..MaxConns
Senders == {"s1", "s2"}   \* tasks that call send_to_user, possibly at the same time

VARIABLES
  \* ---- ConnectionManager (routers/ws.py)
  active_connections,   \* dict user -> list of websockets (a function on a subset of Users)
  ws,                   \* per websocket: [st, user], the position of its websocket_endpoint task
  snd,                  \* per send_to_user call in flight: its locals and position
  everRemoved,          \* history: websockets that were removed from active_connections
  \* ---- call_service.py
  CALL_METRICS,         \* the module-level metrics dict
  push,                 \* one send_voip_push call: its arguments, locals and position
  \* ---- llm_service_langchain.py / proactive_service.py
  loop,                 \* one agent-loop run: its kind, locals and position
  pstate,               \* the proactive_states row of the chat
  \* ---- call lifecycle and reminders
  db_intents,           \* committed outbound_call_intents rows, by id
  db_reminder,          \* the committed reminders row of the reminder under test
  user,                 \* the users row of the reminder's / chat's user
  task,                 \* per task (scheduler job, tool call, request, voice socket): locals and position
  now,                  \* logical clock: the number of datetime.utcnow() stamps taken
  incs,                 \* history: per intent id, the metric increments its transitions made
  \* ---- voice bridge (routers/voice.py, services/voice_service.py)
  bridge,               \* the GeminiVoiceBridge object and its upstream session
  vcall,                \* one voice_call: handler position, its two tasks, the client
  \* ---- reminder scheduler (services/reminder_service.py, main.py)
  reminders,            \* committed reminders rows, by id
  scheduler,            \* the AsyncIOScheduler of the running process: [running, jobs]
  proc,                 \* the server process: [pc, starts]
  clock,                \* the current UTC time
  \* ---- websocket_endpoint's message loop (routers/ws.py)
  turn,                 \* one connected live-chat socket: the handler's position and locals
  \* ---- the tools' module-level context (llm_service_langchain.py, proactive_service.py)
  tool_ctx,             \* per module: the chat whose db, chat id and user id the globals hold
  runs,                 \* the agent-loop runs in progress
  effects,              \* the tool effects applied: the requesting run's chat and the chat written
  \* ---- trigger_proactive_bot (services/proactive_service.py)
  pjob,                 \* one bot's interval job: its position, its session, the chats done
  \* ---- the scheduler's job of the reminder under test (services/reminder_service.py)
  reminder_job          \* "scheduled", "submitted" (its coroutine is started) or "removed"

presenceVars == <<active_connections, ws, snd, everRemoved>>
pushVars == <<push>>
loopVars == <<loop, pstate>>
callVars == <<db_intents, db_reminder, user, task, now, incs>>
voiceVars == <<bridge, vcall>>
schedVars == <<reminders, scheduler, proc, clock>>
turnVars == <<turn>>
ctxVars == <<tool_ctx, runs, effects>>
jobVars == <<pjob>>
timerVars == <<reminder_job>>
vars == <<presenceVars, CALL_METRICS, pushVars, loopVars, callVars, voiceVars, schedVars,
          turnVars, ctxVars, jobVars, timerVars>>

notPresence == <<CALL_METRICS, pushVars, loopVars, callVars, voiceVars, schedVars, turnVars, ctxVars, jobVars, timerVars>>
notPush == <<presenceVars, loopVars, callVars, voiceVars, schedVars, turnVars, ctxVars, jobVars, timerVars>>
notLoop == <<presenceVars, CALL_METRICS, pushVars, callVars, voiceVars, schedVars, turnVars, ctxVars, jobVars, timerVars>>
notCall == <<presenceVars, pushVars, loopVars, voiceVars, schedVars, turnVars, ctxVars, jobVars, timerVars>>
notVoice == <<presenceVars, CALL_METRICS, pushVars, loopVars, callVars, schedVars, turnVars, ctxVars, jobVars, timerVars>>
notSched == <<presenceVars, CALL_METRICS, pushVars, loopVars, callVars, voiceVars, turnVars, ctxVars, jobVars, timerVars>>
notTurn == <<presenceVars, CALL_METRICS, pushVars, loopVars, callVars, voiceVars, schedVars, ctxVars, jobVars, timerVars>>
notCtx == <<presenceVars, CALL_METRICS, pushVars, loopVars, callVars, voiceVars, schedVars, turnVars, jobVars, timerVars>>
notTimer == <<presenceVars, CALL_METRICS, pushVars, loopVars, voiceVars, schedVars, turnVars, ctxVars, jobVars>>
notJob == <<presenceVars, CALL_METRICS, pushVars, loopVars, callVars, voiceVars, schedVars, turnVars, ctxVars, timerVars>>

\* ------------------------------------------------- Python dict / list steps
\* Each returns [val, err]: err is TRUE where Python raises (KeyError, ValueError).
SeqElems(l) == {l[i] : i \in 1..Len(l)}

ListHas(l, x) == x \in SeqElems(l)

FirstIndex(l, x) == CHOOSE i \in 1..Len(l) : l[i] = x /\ \A j \in 1..(i-1) : l[j] # x

\* list.remove(x): removes the first occurrence, ValueError when absent
ListRemove(l, x) ==
  IF ListHas(l, x)
    THEN [val |-> SubSeq(l, 1, FirstIndex(l, x) - 1) \o SubSeq(l, FirstIndex(l, x) + 1, Len(l)),
          err |-> FALSE]
    ELSE [val |-> l, err |-> TRUE]

DictHas(d, k) == k \in DOMAIN d

\* d[k]: KeyError when absent
DictGet(d, k) ==
  IF DictHas(d, k) THEN [val |-> d[k], err |-> FALSE] ELSE [val |-> <<>>, err |-> TRUE]

DictSet(d, k, v) == [x \in (DOMAIN d) \cup {k} |-> IF x = k THEN v ELSE d[x]]

\* del d[k]: KeyError when absent
DictDel(d, k) ==
  IF DictHas(d, k)
    THEN [val |-> [x \in (DOMAIN d) \ {k} |-> d[x]], err |-> FALSE]
    ELSE [val |-> d, err |-> TRUE]

Registered(ac) == UNION {SeqElems(ac[u]) : u \in DOMAIN ac}

\* ------------------------------------------------------ ConnectionManager
\* disconnect without its membership guards (a variant used to test the claims)
disconnect_unguarded(ac, websocket, user_id) ==
  LET got == DictGet(ac, user_id)
      rem == ListRemove(got.val, websocket)
      l1  == rem.val
      out == IF l1 = <<>> THEN DictDel(ac, user_id)
                          ELSE [val |-> DictSet(ac, user_id, l1), err |-> FALSE]
  IN  [ac |-> out.val, err |-> got.err \/ rem.err \/ out.err]

\* disconnect that leaves an emptied list in the dict (a variant used to test the claims)
disconnect_keep_empty(ac, websocket, user_id) ==
  IF DictHas(ac, user_id)
    THEN LET l0  == DictGet(ac, user_id).val
             rem == IF ListHas(l0, websocket) THEN ListRemove(l0, websocket)
                                              ELSE [val |-> l0, err |-> FALSE]
         IN  [ac |-> DictSet(ac, user_id, rem.val), err |-> rem.err]
    ELSE [ac |-> ac, err |-> FALSE]

\* ConnectionManager.disconnect: returns the new dict and whether it raised
disconnect(ac, websocket, user_id) ==
  IF DictHas(ac, user_id)
    THEN LET l0  == DictGet(ac, user_id).val
             rem == IF ListHas(l0, websocket) THEN ListRemove(l0, websocket)
                                              ELSE [val |-> l0, err |-> FALSE]
             l1  == rem.val
             out == IF l1 = <<>> THEN DictDel(ac, user_id)
                                 ELSE [val |-> DictSet(ac, user_id, l1), err |-> FALSE]
         IN  [ac |-> out.val, err |-> rem.err \/ out.err]
    ELSE [ac |-> ac, err |-> FALSE]

\* ConnectionManager.connect, the part after `await websocket.accept()`
connect_register(ac, websocket, user_id) ==
  LET ac1 == IF ~DictHas(ac, user_id) THEN DictSet(ac, user_id, <<>>) ELSE ac
  IN  DictSet(ac1, user_id, Append(ac1[user_id], websocket))

\* ConnectionManager.is_online
is_online(ac, user_id) == DictHas(ac, user_id) /\ Len(ac[user_id]) > 0

\* the `for ws in stale: self.disconnect(ws, user_id)` loop
RECURSIVE PruneStale(_, _, _)
PruneStale(ac, stale, user_id) ==
  IF stale = <<>>
    THEN [ac |-> ac, err |-> FALSE]
    ELSE LET d == disconnect(ac, Head(stale), user_id)
             r == PruneStale(d.ac, Tail(stale), user_id)
         IN  [ac |-> r.ac, err |-> d.err \/ r.err]

\* the ?token= query parameter of a websocket URL: absent, or a JWT naming a
\* user in its sub claim, whose signature and expiry verify (signed) or not
Tokens ==
  {[present |-> FALSE, signed |-> FALSE, sub |-> "None"]}
    \cup {[present |-> TRUE, signed |-> sg, sub |-> u] : sg \in BOOLEAN, u \in Users}

\* whether the token is one that create_access_token issued and that has not expired
ValidToken(token) == token.present /\ token.signed

\* decode_access_token returning the sub claim of a token it did not verify (a
\* variant used to test the claims)
decode_access_token_unverified(token) == token.sub

\* decode_access_token: the sub claim, None on a JWTError
decode_access_token(token) == IF token.signed THEN token.sub ELSE "None"

\* _authenticate_ws, and lines 34-42 of voice_call: None without a token
_authenticate_ws(token) ==
  IF ~token.present THEN "None" ELSE decode_access_token(token)

NewSocket == [st |-> "new", user |-> "u1", valid |-> FALSE, code |-> 0]

IdleSender == [pc |-> "idle", user |-> "u1", snapshot |-> <<>>, idx |-> 0,
               delivered |-> 0, stale |-> <<>>, ok |-> {}, pruned |-> {},
               raised |-> FALSE, mid |-> FALSE]

PresenceInit ==
  /\ active_connections = <<>>
  /\ ws = [c \in Conns |-> NewSocket]
  /\ snd = [s \in Senders |-> IdleSender]
  /\ everRemoved = {}

\* senders of user u that are suspended inside send_to_user see a concurrent change
MarkMid(u) ==
  [s \in Senders |-> IF snd[s].pc = "awaiting" /\ snd[s].user = u
                       THEN [snd[s] EXCEPT !.mid = TRUE] ELSE snd[s]]

\* websocket_endpoint up to its first await: without a user id the socket is
\* closed with code 4001 and the handler returns, else it enters
\* manager.connect and awaits accept()
WsConnectBegin(c, token) ==
  /\ UNCHANGED notPresence
  /\ ws[c].st = "new"
  /\ \A c2 \in Conns : c2 < c => ws[c2].st # "new"   \* websocket objects are fresh: taken in order
  /\ LET user_id == _authenticate_ws(token)
     IN  ws' = [ws EXCEPT ![c] =
                 IF user_id = "None"
                   THEN [NewSocket EXCEPT !.st = "rejected", !.valid = ValidToken(token),
                                          !.code = 4001]
                   ELSE [NewSocket EXCEPT !.st = "accepting", !.user = user_id,
                                          !.valid = ValidToken(token)]]
  /\ UNCHANGED <<active_connections, snd, everRemoved>>

\* accept() returned: the websocket is appended to the user's list
WsConnectRegister(c) ==
  /\ UNCHANGED notPresence
  /\ ws[c].st = "accepting"
  /\ active_connections' = connect_register(active_connections, c, ws[c].user)
  /\ ws' = [ws EXCEPT ![c].st = "open"]
  /\ snd' = MarkMid(ws[c].user)
  /\ UNCHANGED everRemoved

\* accept() raised: connect propagates, nothing is registered
WsAcceptFail(c) ==
  /\ UNCHANGED notPresence
  /\ ws[c].st = "accepting"
  /\ ws' = [ws EXCEPT ![c].st = "closed"]
  /\ UNCHANGED <<active_connections, snd, everRemoved>>

\* websocket_endpoint's except branches: manager.disconnect(websocket, user_id)
WsDisconnect(c) ==
  /\ UNCHANGED notPresence
  /\ ws[c].st = "open"
  /\ LET d == disconnect(active_connections, c, ws[c].user)
     IN  /\ active_connections' = d.ac
         /\ everRemoved' = everRemoved \cup (Registered(active_connections) \ Registered(d.ac))
  /\ ws' = [ws EXCEPT ![c].st = "closed"]
  /\ snd' = MarkMid(ws[c].user)

\* send_to_user up to its first await: the offline return, or the snapshot
SendStart(s, u) ==
  /\ UNCHANGED notPresence
  /\ snd[s].pc = "idle"
  /\ IF ~DictHas(active_connections, u)
       THEN snd' = [snd EXCEPT ![s] = [IdleSender EXCEPT !.pc = "done", !.user = u]]
       ELSE LET got == DictGet(active_connections, u)
            IN  snd' = [snd EXCEPT ![s] =
                   [IdleSender EXCEPT !.pc = IF got.err \/ got.val = <<>> THEN "done" ELSE "awaiting",
                                      !.user = u, !.snapshot = got.val, !.idx = 1,
                                      !.raised = got.err]]
  /\ UNCHANGED <<active_connections, ws, everRemoved>>

\* AfterSend counting every attempted send as delivered (a variant used to test the claims)
AfterSend_count_all(r, sent) ==
  IF sent THEN [r EXCEPT !.delivered = @ + 1, !.ok = @ \cup {r.snapshot[r.idx]}]
          ELSE [r EXCEPT !.delivered = @ + 1, !.stale = Append(@, r.snapshot[r.idx])]

\* the locals of sender s after the outcome of `await ws.send_text(data)`
AfterSend(r, sent) ==
  IF sent THEN [r EXCEPT !.delivered = @ + 1, !.ok = @ \cup {r.snapshot[r.idx]}]
          ELSE [r EXCEPT !.stale = Append(@, r.snapshot[r.idx])]

\* one send completes (sent) or raises (~sent); after the last one the stale
\* websockets are pruned and send_to_user returns, without another await
SendStep(s, sent) ==
  /\ UNCHANGED notPresence
  /\ snd[s].pc = "awaiting"
  /\ ws[snd[s].snapshot[snd[s].idx]].st = "closed" => ~sent
  /\ LET r == AfterSend(snd[s], sent)
     IN  IF r.idx < Len(r.snapshot)
           THEN /\ snd' = [snd EXCEPT ![s] = [r EXCEPT !.idx = @ + 1]]
                /\ UNCHANGED <<active_connections, everRemoved>>
           ELSE LET p == PruneStale(active_connections, r.stale, r.user)
                    gone == Registered(active_connections) \ Registered(p.ac)
                IN  /\ active_connections' = p.ac
                    /\ everRemoved' = everRemoved \cup gone
                    /\ snd' = [snd EXCEPT ![s] = [r EXCEPT !.pc = "done", !.pruned = gone,
                                                           !.raised = r.raised \/ p.err]]
  /\ UNCHANGED ws

\* the caller takes the result; the task slot is free for the next call
SendReturn(s) ==
  /\ UNCHANGED notPresence
  /\ snd[s].pc = "done"
  /\ snd' = [snd EXCEPT ![s] = IdleSender]
  /\ UNCHANGED <<active_connections, ws, everRemoved>>

PresenceNext ==
  \/ \E c \in Conns, token \in Tokens : WsConnectBegin(c, token)
  \/ \E c \in Conns : WsConnectRegister(c)
  \/ \E c \in Conns : WsAcceptFail(c)
  \/ \E c \in Conns : WsDisconnect(c)
  \/ \E s \in Senders, u \in Users : SendStart(s, u)
  \/ \E s \in Senders, sent \in BOOLEAN : SendStep(s, sent)
  \/ \E s \in Senders : SendReturn(s)

\* ------------------------------------------------------------ send_voip_push
MaxRetries == 4        \* largest `retries` argument tried
MaxPushCalls == 2      \* send_voip_push calls in one run
DefaultRetries == 3    \* retries: int = 3
InitialBackoff == 1    \* backoff = 0.25, in quarter seconds

MetricNames == {"scheduled", "push_sent", "push_failed", "accepted", "missed", "completed"}

\* _inc
_inc(m, metric) == [m EXCEPT ![metric] = @ + 1]

\* what one `await client.post(...)` produces: a status code, or an exception
PostOutcomes == {"200", "204", "410", "exc"}

\* the environment of a call: credentials configured and key file readable,
\* credentials missing, or key file missing (_build_apns_jwt raises)
PushEnvs == {"ok", "unconfigured", "nokey"}

IdlePush == [pc |-> "idle", retries |-> 0, attempt |-> 0, outcomes |-> <<>>,
             backoff |-> 0, sleeps |-> <<>>, jwt |-> 0, result |-> "none",
             m0 |-> [n \in MetricNames |-> 0], calls |-> 0]

PushInit ==
  /\ CALL_METRICS = [n \in MetricNames |-> 0]
  /\ push = IdlePush

\* send_voip_push up to its first await
PushCall(retries, env) ==
  /\ push.pc = "idle"
  /\ push.calls < MaxPushCalls
  /\ LET p0 == [IdlePush EXCEPT !.retries = retries, !.m0 = CALL_METRICS,
                                !.calls = push.calls + 1]
     IN  IF env = "unconfigured"
           THEN /\ push' = [p0 EXCEPT !.pc = "done", !.result = "false"]
                /\ UNCHANGED CALL_METRICS
           ELSE IF env = "nokey"
             THEN /\ push' = [p0 EXCEPT !.pc = "done", !.result = "raised"]
                  /\ UNCHANGED CALL_METRICS
             ELSE IF retries >= 1
               THEN /\ push' = [p0 EXCEPT !.pc = "post", !.jwt = 1, !.attempt = 1,
                                          !.backoff = InitialBackoff]
                    /\ UNCHANGED CALL_METRICS
               ELSE /\ push' = [p0 EXCEPT !.pc = "done", !.jwt = 1, !.result = "false",
                                          !.backoff = InitialBackoff]
                    /\ CALL_METRICS' = _inc(CALL_METRICS, "push_failed")
  /\ UNCHANGED notPush

\* the metrics after an attempt that was not answered 200 (a variant used to test
\* the claims counts the failure on every such attempt)
FailedAttemptMetrics_per_attempt(m, last) == _inc(m, "push_failed")

\* the metrics after an attempt that was not answered 200: push_failed is
\* counted after the loop, so only when the attempt was the last one
FailedAttemptMetrics(m, last) == IF last THEN _inc(m, "push_failed") ELSE m

\* `await client.post` returns or raises: success on 200, else the next attempt
\* after a sleep, or the failure return after the last attempt
PushResponse(o) ==
  /\ push.pc = "post"
  /\ LET p1 == [push EXCEPT !.outcomes = Append(@, o)]
     IN  IF o = "200"
           THEN /\ push' = [p1 EXCEPT !.pc = "done", !.result = "true"]
                /\ CALL_METRICS' = _inc(CALL_METRICS, "push_sent")
           ELSE IF push.attempt < push.retries
             THEN /\ push' = [p1 EXCEPT !.pc = "sleep"]
                  /\ CALL_METRICS' = FailedAttemptMetrics(CALL_METRICS, FALSE)
             ELSE /\ push' = [p1 EXCEPT !.pc = "done", !.result = "false"]
                  /\ CALL_METRICS' = FailedAttemptMetrics(CALL_METRICS, TRUE)
  /\ UNCHANGED notPush

\* the backoff growing by its initial value (a variant used to test the claims)
NextBackoff_linear(backoff) == backoff + InitialBackoff

\* `backoff *= 2`
NextBackoff(backoff) == backoff * 2

\* `await asyncio.sleep(backoff)` returns: backoff doubles, next attempt is posted
PushWake ==
  /\ push.pc = "sleep"
  /\ push' = [push EXCEPT !.pc = "post", !.sleeps = Append(@, push.backoff),
                          !.backoff = NextBackoff(@), !.attempt = @ + 1]
  /\ UNCHANGED <<CALL_METRICS, notPush>>

\* the caller takes the result
PushReturn ==
  /\ push.pc = "done"
  /\ push' = [IdlePush EXCEPT !.calls = push.calls]
  /\ UNCHANGED <<CALL_METRICS, notPush>>

PushNext ==
  \/ \E r \in 1..MaxRetries, env \in PushEnvs : PushCall(r, env)
  \/ \E o \in PostOutcomes : PushResponse(o)
  \/ PushWake
  \/ PushReturn

\* ---------------------------------------------------------------- agent loops
MaxCalls == 2                  \* tool calls in one model response
MaxSessions == 3               \* proactive runs of the chat in one run
MaxMessagesCfg == 2            \* the bot's proactive_max_messages setting
DefaultMaxMessages == 5        \* cfg.get("proactive_max_messages", 5)
max_iterations == 10           \* live loop: max_iterations = 10
max_iterations_proactive == 10 \* _react_loop: max_iterations = 10

\* a tool call of a model response: the tool's name and, for send_message_tool,
\* whether its message argument is blank
ToolCalls ==
  {[name |-> "send_message_tool", blank |-> FALSE],
   [name |-> "send_message_tool", blank |-> TRUE],
   [name |-> "web_search_tool", blank |-> FALSE],
   [name |-> "unknown_tool", blank |-> FALSE]}

RECURSIVE SeqsUpTo(_, _)
SeqsUpTo(S, n) ==
  IF n = 0 THEN {<<>>}
  ELSE LET shorter == SeqsUpTo(S, n - 1)
       IN  shorter \cup {Append(q, x) : q \in {r \in shorter : Len(r) = n - 1}, x \in S}

\* response.tool_calls of one model response
Responses == SeqsUpTo(ToolCalls, MaxCalls)

\* the bot's integrations_config entry: whether it is set, and its value
BotCfg == [set |-> TRUE, val |-> MaxMessagesCfg]

\* _get_max_messages: max(int(val), 1), with 5 when the entry is absent
_get_max_messages(cfg) ==
  LET val == IF cfg.set THEN cfg.val ELSE DefaultMaxMessages
  IN  IF val > 1 THEN val ELSE 1

max_messages == _get_max_messages(BotCfg)

\* the deliveries of one _push_to_main_conversation: the count send_to_user
\* returned, what was read of the chat and the user, whether the alert push
\* was sent
NoDelivery == [live |-> 0, muted |-> FALSE, token |-> FALSE, alert |-> FALSE]

IdleLoop == [kind |-> "none", pc |-> "idle", iteration |-> 0, response |-> <<>>,
             idx |-> 0, messages_to_push |-> 0, user |-> FALSE,
             rounds |-> 0, invocations |-> 0, pushes |-> 0,
             delivered |-> 0, error |-> FALSE, skipped |-> FALSE, last |-> NoDelivery,
             tool_messages |-> <<>>, appended |-> <<>>, content |-> FALSE, flushed |-> TRUE,
             session_id |-> 0]

NoState == [exists |-> FALSE, message_count |-> 0, session_counter |-> 0]

LoopInit == loop = IdleLoop /\ pstate = NoState

\* _process_proactive_chat: the row of the chat, created with both counters 0
\* when there is none
GetOrCreateState(row) ==
  IF row.exists THEN row ELSE [exists |-> TRUE, message_count |-> 0, session_counter |-> 0]

\* the quota guard with a strict comparison (a variant used to test the claims)
QuotaExhausted_strict(count, maxm) == count > maxm

\* `if state.message_count >= max_messages: return`
QuotaExhausted(count, maxm) == count >= maxm

\* reset_proactive_counter: the row after it (no caller in the application)
reset_proactive_counter(row) ==
  IF row.exists /\ row.message_count > 0 THEN [row EXCEPT !.message_count = 0] ELSE row

\* send_message_tool: success with action push_to_main unless the message is blank
send_message_tool(call) ==
  IF call.blank THEN [success |-> FALSE, action |-> "none", message |-> FALSE]
                ELSE [success |-> TRUE, action |-> "push_to_main", message |-> TRUE]

\* _react_loop lines 507-510: whether this tool call queues a message
QueuesMessage(call) ==
  /\ call.name = "send_message_tool"
  /\ send_message_tool(call).success
  /\ send_message_tool(call).action = "push_to_main"
  /\ send_message_tool(call).message

\* the tool names each loop dispatches on
LiveToolNames == {"web_search_tool"}
ProactiveToolNames == {"web_search_tool", "send_message_tool"}

KnownTool(kind, name) ==
  IF kind = "live" THEN name \in LiveToolNames ELSE name \in ProactiveToolNames

\* what json.dumps(tool_result) holds: an object or null, and whether the
\* object has an error field
ToolResult(call) ==
  [is_object |-> TRUE, error |-> call.name = "send_message_tool" /\ call.blank]
ErrorResult == [is_object |-> TRUE, error |-> TRUE]
NullResult == [is_object |-> FALSE, error |-> FALSE]

\* execute_tool of the live loop: the tool's result, {"error": str(e)} when it
\* raised, and None for a name outside its if/elif chain
execute_tool(call, raised) ==
  IF raised THEN ErrorResult
  ELSE IF call.name \in LiveToolNames THEN ToolResult(call)
  ELSE NullResult

\* _execute_tool of _react_loop: as above, with {"error": "Unknown tool: ..."}
\* in its else branch
_execute_tool(call, raised) ==
  IF raised THEN ErrorResult
  ELSE IF call.name \in ProactiveToolNames THEN ToolResult(call)
  ELSE ErrorResult

\* tool_call["id"]: the calls of one response have distinct ids
ToolCallId(response, i) == i

\* ToolMessage carrying the id of another call of the response (a variant used
\* to test the claims)
ToolMessage_first_id(response, i, result, raised) ==
  [role |-> "tool", tool_call_id |-> ToolCallId(response, 1), result |-> result,
   raised |-> raised]

\* ToolMessage(content=json.dumps(tool_result), tool_call_id=tool_call["id"]);
\* raised records whether the tool raised
ToolMessage(response, i, result, raised) ==
  [role |-> "tool", tool_call_id |-> ToolCallId(response, i), result |-> result,
   raised |-> raised]

\* messages.append(response); messages.extend(tool_messages): what one round
\* adds to the transcript
RoundMessages(tool_messages) == <<[role |-> "ai"]>> \o tool_messages

\* the live loop's `while response.tool_calls and iteration < max_iterations`
\* with the ceiling off by one (a variant used to test the claims)
LiveLoopContinues_off_by_one(response, iteration) ==
  response # <<>> /\ iteration <= max_iterations

\* the live loop's `while response.tool_calls and iteration < max_iterations`
LiveLoopContinues(response, iteration) ==
  response # <<>> /\ iteration < max_iterations

\* _react_loop's `while iteration < max_iterations`
ProactiveLoopContinues(iteration) == iteration < max_iterations_proactive

\* the session counter left as it is (a variant used to test the claims)
NextSessionId_reused(row) == IF row.session_counter = 0 THEN 1 ELSE row.session_counter

\* `state.session_counter += 1; session_id = state.session_counter`
NextSessionId(row) == row.session_counter + 1

\* a run starts. Live: websocket_endpoint handles an inbound user message and
\* get_ai_response_stream invokes the model (line 316). Proactive:
\* _process_proactive_chat checks the quota, takes the next session id and
\* enters _react_loop's while (lines 437-443); with the quota used up it
\* returns and the session is closed without a commit
LoopStart(kind, userExists) ==
  /\ loop.pc = "idle" /\ loop.kind = "none"
  /\ LET st == GetOrCreateState(pstate)
         started == [IdleLoop EXCEPT !.kind = kind, !.pc = "invoke", !.user = userExists,
                                     !.iteration = IF kind = "proactive" THEN 1 ELSE 0,
                                     !.session_id = IF kind = "proactive"
                                                      THEN NextSessionId(st) ELSE 0]
     IN  IF kind = "live"
           THEN loop' = started /\ UNCHANGED pstate
           ELSE /\ pstate.session_counter < MaxSessions
                /\ IF QuotaExhausted(st.message_count, max_messages)
                     THEN /\ loop' = [IdleLoop EXCEPT !.kind = kind, !.pc = "done",
                                                      !.user = userExists, !.skipped = TRUE]
                          /\ UNCHANGED pstate
                     ELSE /\ loop' = started
                          /\ pstate' = [st EXCEPT !.session_counter = NextSessionId(st)]
  /\ UNCHANGED notLoop

\* the run has ended and its caller went on
LoopReturn ==
  /\ loop.pc = "done"
  /\ loop' = IdleLoop
  /\ UNCHANGED <<pstate, notLoop>>

\* the text of the latest response is yielded as paragraphs (or, in
\* _react_loop, saved as a lifecycle message)
YieldText(l) == [l EXCEPT !.flushed = @]

\* the text of the latest response is dropped
DropText(l) == [l EXCEPT !.flushed = @ /\ ~l.content]

\* the live loop after a model response, without the paragraphs after the
\* while (a variant used to test the claims)
LiveAfterResponse_no_final_text(l, resp) ==
  IF LiveLoopContinues(resp, l.iteration)
    THEN YieldText([l EXCEPT !.response = resp, !.iteration = @ + 1, !.rounds = @ + 1,
                             !.idx = 1, !.pc = "tool"])
    ELSE DropText([l EXCEPT !.response = resp, !.pc = "done"])

\* the live loop after a model response: another round of tools, or the end;
\* either way the text of the response is yielded first
LiveAfterResponse(l, resp) ==
  IF LiveLoopContinues(resp, l.iteration)
    THEN YieldText([l EXCEPT !.response = resp, !.iteration = @ + 1, !.rounds = @ + 1,
                             !.idx = 1, !.pc = "tool"])
    ELSE YieldText([l EXCEPT !.response = resp, !.pc = "done"])

\* _react_loop after its while: the queued messages are pushed one by one
ProactiveAfterLoop(l) ==
  IF l.messages_to_push > 0 THEN [l EXCEPT !.pc = "push", !.idx = 1]
                            ELSE [l EXCEPT !.pc = "done"]

\* content is the text of the response the run ended with
KeepFinalText(l) == IF l.kind = "live" /\ l.pc = "done" THEN l ELSE [l EXCEPT !.content = FALSE]

\* `await llm_with_tools.ainvoke(messages)` returns a response, with text
\* (content) or without
ModelResponds(resp, content) ==
  /\ loop.pc = "invoke"
  /\ LET l == [loop EXCEPT !.invocations = @ + 1, !.content = content]
     IN  IF loop.kind = "live"
           THEN loop' = KeepFinalText(LiveAfterResponse(l, resp))
           ELSE IF resp = <<>>
             THEN loop' = KeepFinalText(ProactiveAfterLoop(YieldText([l EXCEPT !.response = resp])))
             ELSE loop' = KeepFinalText(YieldText([l EXCEPT !.response = resp, !.rounds = @ + 1,
                                                            !.idx = 1, !.pc = "tool"]))
  /\ UNCHANGED <<pstate, notLoop>>

\* `await llm_with_tools.ainvoke(messages)` raises: the live generator raises to
\* its caller, _react_loop breaks out of its while
ModelFails ==
  /\ loop.pc = "invoke"
  /\ LET l == [loop EXCEPT !.invocations = @ + 1, !.error = TRUE]
     IN  IF loop.kind = "live"
           THEN loop' = [l EXCEPT !.pc = "done"]
           ELSE loop' = ProactiveAfterLoop(l)
  /\ UNCHANGED <<pstate, notLoop>>

\* the tool call at idx has been executed (its result or its exception turned
\* into a result) and its ToolMessage built; after the last one of the
\* response the transcript is extended by the response and the tool messages
ToolExecuted(raised) ==
  /\ loop.pc = "tool"
  /\ raised => KnownTool(loop.kind, loop.response[loop.idx].name)
  /\ LET call == loop.response[loop.idx]
         q == IF loop.kind = "proactive" /\ ~raised /\ QueuesMessage(call) THEN 1 ELSE 0
         tool_result == IF loop.kind = "live" THEN execute_tool(call, raised)
                                              ELSE _execute_tool(call, raised)
         tm == Append(loop.tool_messages,
                      ToolMessage(loop.response, loop.idx, tool_result, raised))
         l == [loop EXCEPT !.messages_to_push = @ + q, !.tool_messages = tm]
     IN  IF loop.idx < Len(loop.response)
           THEN loop' = [l EXCEPT !.idx = @ + 1]
           ELSE loop' = [l EXCEPT !.appended = RoundMessages(tm), !.tool_messages = <<>>,
                                  !.pc = "extended"]
  /\ UNCHANGED <<pstate, notLoop>>

\* with the transcript extended the round is over: the live loop passes the
\* transcript to the model again, _react_loop ends when a message was queued,
\* else goes through its while again
NextRound ==
  /\ loop.pc = "extended"
  /\ LET l == [loop EXCEPT !.appended = <<>>, !.content = FALSE]
     IN  IF loop.kind = "live"
           THEN loop' = [l EXCEPT !.pc = "invoke"]
           ELSE IF l.messages_to_push > 0
             THEN loop' = ProactiveAfterLoop(l)
             ELSE IF ProactiveLoopContinues(l.iteration)
               THEN loop' = [l EXCEPT !.iteration = @ + 1, !.pc = "invoke"]
               ELSE loop' = ProactiveAfterLoop(l)
  /\ UNCHANGED <<pstate, notLoop>>

\* _push_to_main_conversation lines 621-628: the alert push is sent when the
\* user has a token and the chat is not muted
SendsAlert(live, token, muted) == token /\ ~muted

\* the count left as it is (a variant used to test the claims)
CountMessage_not(row) == row

\* `state.message_count += 1`
CountMessage(row) == [row EXCEPT !.message_count = @ + 1]

\* one `await _push_to_main_conversation(...)` of the final for loop: unless the
\* chat's user is not found, a new assistant message, message_count + 1, the
\* live send (which returns `live`) and the alert push
PushToMain(live, token, muted) ==
  /\ loop.pc = "push"
  /\ ~loop.user => (live = 0 /\ ~token /\ ~muted)
  /\ LET l == [loop EXCEPT !.pushes = @ + 1,
                           !.delivered = IF loop.user THEN @ + 1 ELSE @,
                           !.last = IF loop.user
                                      THEN [live |-> live, muted |-> muted, token |-> token,
                                            alert |-> SendsAlert(live, token, muted)]
                                      ELSE @]
     IN  IF loop.idx < loop.messages_to_push
           THEN loop' = [l EXCEPT !.idx = @ + 1]
           ELSE loop' = [l EXCEPT !.pc = "done"]
  /\ pstate' = IF loop.user THEN CountMessage(pstate) ELSE pstate
  /\ UNCHANGED notLoop

LoopNext ==
  \/ \E kind \in {"live", "proactive"}, userExists \in BOOLEAN : LoopStart(kind, userExists)
  \/ \E resp \in Responses, content \in BOOLEAN : ModelResponds(resp, content)
  \/ ModelFails
  \/ \E raised \in BOOLEAN : ToolExecuted(raised)
  \/ NextRound
  \/ \E live \in 0..1, token \in BOOLEAN, muted \in BOOLEAN : PushToMain(live, token, muted)

\* runs of the chat one after the other: live turns and proactive triggers
ProactiveNext ==
  \/ LoopNext
  \/ LoopReturn

\* ------------------------------------- websocket_endpoint's message loop
MaxFrames == 3         \* frames the client sends on one socket

\* what get_ai_response_stream yields: dicts of type paragraph or tool_call
Paragraph == [pytype |-> "dict", type |-> "paragraph"]
ToolCallNotice == [pytype |-> "dict", type |-> "tool_call"]
NoItem == [pytype |-> "none", type |-> "none"]

\* Python's `full_response += token` on a str: TypeError unless token is a str
StrConcat(full_response, token) ==
  IF token.pytype = "str" THEN [val |-> full_response + 1, err |-> FALSE]
                          ELSE [val |-> full_response, err |-> TRUE]

\* the first item the generator yields after a model response, if any: the
\* response's text, else the notice of its first tool call
FirstItem(resp, content, iteration) ==
  IF content THEN Paragraph
  ELSE IF LiveLoopContinues(resp, iteration) THEN ToolCallNotice
  ELSE NoItem

NoMessage == [exists |-> FALSE, content |-> 0]

\* the locals of one pass of `while True`
NewTurn == [iteration |-> 0, invocations |-> 0, produced |-> 0, full_response |-> 0,
            failure |-> "none", error_frames |-> 0, stored |-> NoMessage,
            complete |-> NoMessage]

TurnInit == turn = [pc |-> "receive", frames |-> 0, t |-> NewTurn]

\* `await websocket.receive_text()` returns a frame. A frame that is not JSON
\* raises into `except Exception` (manager.disconnect, the handler ends); a
\* typing frame is passed over; a message for a chat that is not the user's is
\* answered with an error frame; else the user message is stored and echoed
\* and the generator runs up to its first model invocation
WsFrames == {"message", "typing", "malformed"}

TurnReceive(frame, chatFound) ==
  /\ turn.pc = "receive" /\ turn.frames < MaxFrames
  /\ frame # "message" => chatFound
  /\ turn' =
       IF frame = "malformed" THEN [turn EXCEPT !.pc = "closed", !.frames = @ + 1]
       ELSE IF frame = "typing" THEN [turn EXCEPT !.frames = @ + 1]
       ELSE IF ~chatFound
         THEN [turn EXCEPT !.frames = @ + 1, !.t = [NewTurn EXCEPT !.error_frames = 1]]
       ELSE [turn EXCEPT !.pc = "invoke", !.frames = @ + 1, !.t = NewTurn]
  /\ UNCHANGED notTurn

\* receive_text raises WebSocketDisconnect: manager.disconnect, the handler ends
TurnClientGone ==
  /\ turn.pc = "receive"
  /\ turn' = [turn EXCEPT !.pc = "closed"]
  /\ UNCHANGED notTurn

\* `await llm_with_tools.ainvoke(messages)` raises: the generator raises into
\* the `except Exception as llm_err` of the handler
TurnModelFails ==
  /\ turn.pc = "invoke"
  /\ turn' = [turn EXCEPT !.pc = "error_frame", !.t.invocations = @ + 1,
                          !.t.failure = "model"]
  /\ UNCHANGED notTurn

\* ainvoke returns a response: the generator yields its first item to the
\* `async for`, whose body is `full_response += token` and a stream frame;
\* without an item the generator has ended. (An item that is a str would be
\* accumulated and streamed, and the generator resumed: no item is a str.)
TurnModelResponds(resp, content) ==
  /\ turn.pc = "invoke"
  /\ LET item == FirstItem(resp, content, turn.t.iteration)
         acc == StrConcat(turn.t.full_response, item)
         t1 == [turn.t EXCEPT !.invocations = @ + 1,
                              !.iteration = IF LiveLoopContinues(resp, @) THEN @ + 1 ELSE @,
                              !.produced = IF item = Paragraph THEN @ + 1 ELSE @]
     IN  turn' =
           IF item = NoItem THEN [turn EXCEPT !.pc = "commit", !.t = t1]
           ELSE IF acc.err
             THEN [turn EXCEPT !.pc = "error_frame", !.t = [t1 EXCEPT !.failure = "consumer"]]
           ELSE [turn EXCEPT !.pc = "stream", !.t = [t1 EXCEPT !.full_response = acc.val]]
  /\ UNCHANGED notTurn

\* the error frame of the except branch has been sent (send_to_user does not raise)
TurnErrorSent ==
  /\ turn.pc = "error_frame"
  /\ turn' = [turn EXCEPT !.pc = "commit", !.t.error_frames = @ + 1]
  /\ UNCHANGED notTurn

\* the assistant message with content full_response is added and
\* `await db.commit()` returns, or raises into `except Exception`
TurnCommit(ok) ==
  /\ turn.pc = "commit"
  /\ turn' = IF ok THEN [turn EXCEPT !.pc = "complete",
                                     !.t.stored = [exists |-> TRUE,
                                                   content |-> turn.t.full_response]]
                   ELSE [turn EXCEPT !.pc = "closed"]
  /\ UNCHANGED notTurn

\* message_complete with content full_response has been sent; the handler is
\* back at receive_text
TurnComplete ==
  /\ turn.pc = "complete"
  /\ turn' = [turn EXCEPT !.pc = "receive",
                          !.t.complete = [exists |-> TRUE, content |-> turn.t.full_response]]
  /\ UNCHANGED notTurn

TurnNext ==
  \/ \E frame \in WsFrames, chatFound \in BOOLEAN : TurnReceive(frame, chatFound)
  \/ TurnClientGone
  \/ TurnModelFails
  \/ \E resp \in Responses, content \in BOOLEAN : TurnModelResponds(resp, content)
  \/ TurnErrorSent
  \/ \E ok \in BOOLEAN : TurnCommit(ok)
  \/ TurnComplete

\* ------------------------------------------ the tools' module-level context
MaxRuns == 2           \* agent-loop runs in one execution
MaxToolRounds == 2     \* tool calls one run executes

RunIds == 1..MaxRuns
Chats == {"A", "B"}

\* the module whose globals a run of this kind sets and whose tools it binds:
\* llm_service_langchain for a live turn, proactive_service for a proactive run
ModuleOf(kind) == kind

IdleRun == [kind |-> "none", chat |-> "None", pc |-> "idle", rounds |-> 0]

CtxInit ==
  /\ tool_ctx = [m \in {"live", "proactive"} |-> "None"]
  /\ runs = [r \in RunIds |-> IdleRun]
  /\ effects = {}

\* the context a tool reads: _current_db, _current_chat_id, _current_user_id of
\* its module
ToolContext(ctx, run) == ctx[ModuleOf(run.kind)]

\* a run starts for a chat: `_current_db = db; _current_chat_id = chat_id; ...`
\* and the run goes on to its model invocation
RunStart(r, kind, chat) ==
  /\ runs[r].pc = "idle"
  /\ \A r2 \in RunIds : r2 < r => runs[r2].pc # "idle"
  /\ tool_ctx' = [tool_ctx EXCEPT ![ModuleOf(kind)] = chat]
  /\ runs' = [runs EXCEPT ![r] = [kind |-> kind, chat |-> chat, pc |-> "invoke", rounds |-> 0]]
  /\ UNCHANGED <<effects, notCtx>>

\* `await llm_with_tools.ainvoke(messages)` returns, with a tool call or without
RunModelResponds(r, wantsTool) ==
  /\ runs[r].pc = "invoke"
  /\ wantsTool => runs[r].rounds < MaxToolRounds
  /\ runs' = [runs EXCEPT ![r].pc = IF wantsTool THEN "tool" ELSE "done"]
  /\ UNCHANGED <<tool_ctx, effects, notCtx>>

\* the tool runs: _execute_schedule_call(_current_db, _current_chat_id,
\* _current_user_id, ...) and the like write to the chat of the context
RunToolExecuted(r) ==
  /\ runs[r].pc = "tool"
  /\ effects' = effects \cup {[kind |-> runs[r].kind, requested |-> runs[r].chat,
                                applied |-> ToolContext(tool_ctx, runs[r])]}
  /\ runs' = [runs EXCEPT ![r].pc = "invoke", ![r].rounds = @ + 1]
  /\ UNCHANGED <<tool_ctx, notCtx>>

CtxNext ==
  \/ \E r \in RunIds, kind \in {"live", "proactive"}, chat \in Chats : RunStart(r, kind, chat)
  \/ \E r \in RunIds, wantsTool \in BOOLEAN : RunModelResponds(r, wantsTool)
  \/ \E r \in RunIds : RunToolExecuted(r)

\* ---------------------------------------------------- trigger_proactive_bot
MaxChats == 3          \* chats of the bot
MaxJobRuns == 2        \* fires of the bot's interval job

\* the bots row the job finds: none, one with proactivity off, one with it on
BotRows == {"missing", "disabled", "enabled"}

\* what `await _process_proactive_chat(...)` does for one chat: it returns at
\* the quota guard, or after the run and its commit, or an exception leaves it
\* (a query or flush before the loop, or the commit in its finally)
ChatOutcomes == {"skipped", "ran", "raised"}

IdleJob == [pc |-> "idle", fires |-> 0, n |-> 0, idx |-> 0, expired |-> FALSE,
            outcomes |-> <<>>, result |-> "none"]

JobInit == pjob = IdleJob

\* reading a column of an ORM object (chat.id) in the coroutine: an expired
\* object needs a refresh, which the async session cannot do implicitly
\* (sqlalchemy.exc.MissingGreenlet)
AttributeAccess(expired) == IF expired THEN "MissingGreenlet" ELSE "ok"

\* the job after the chat at idx: the next chat, or the end of the for loop
JobAfterChat(j) ==
  IF j.idx < j.n THEN [j EXCEPT !.idx = @ + 1, !.pc = "chat"]
                 ELSE [j EXCEPT !.pc = "done", !.result = "returned"]

\* the job fires: a new session, the bot is loaded with its chats; a missing
\* bot or one with _proactive_minutes None makes it return
JobFire(bot, n) ==
  /\ pjob.pc \in {"idle", "done"} /\ pjob.fires < MaxJobRuns
  /\ bot # "enabled" => n = 0
  /\ LET j == [IdleJob EXCEPT !.fires = pjob.fires + 1, !.n = n]
     IN  pjob' = IF bot = "enabled" /\ n > 0
                   THEN [j EXCEPT !.pc = "chat", !.idx = 1]
                   ELSE [j EXCEPT !.pc = "done", !.result = "returned"]
  /\ UNCHANGED notJob

\* `await _process_proactive_chat(db, bot, chat, ...)` inside the try: its first
\* statement reads chat.id; it returns, or an exception leaves it (the commit
\* of a run is taken not to expire the session's objects)
JobChat(outcome) ==
  /\ pjob.pc = "chat"
  /\ pjob' =
       IF AttributeAccess(pjob.expired) # "ok"
         THEN [pjob EXCEPT !.pc = "handler", !.outcomes = Append(@, "raised")]
       ELSE IF outcome = "raised"
         THEN [pjob EXCEPT !.pc = "handler", !.outcomes = Append(@, "raised")]
       ELSE JobAfterChat([pjob EXCEPT !.outcomes = Append(@, outcome)])
  /\ UNCHANGED notJob

\* `except Exception as e`: logger.warning(..., chat.id, e, ...) reads chat.id,
\* then `await db.rollback()`, which expires every object of the session; an
\* exception raised in the handler leaves the job
JobHandler ==
  /\ pjob.pc = "handler"
  /\ pjob' =
       IF AttributeAccess(pjob.expired) # "ok"
         THEN [pjob EXCEPT !.pc = "done", !.result = "raised"]
         ELSE JobAfterChat([pjob EXCEPT !.expired = TRUE])
  /\ UNCHANGED notJob

JobNext ==
  \/ \E bot \in BotRows, n \in 0..MaxChats : JobFire(bot, n)
  \/ \E outcome \in ChatOutcomes : JobChat(outcome)
  \/ JobHandler

\* ------------------------------------------------- call lifecycle, reminders
MaxTasks == 2          \* tasks (jobs, tool calls, requests, voice sockets) in one run

Tasks == 1..MaxTasks
IntentIds == 1..MaxTasks      \* every task creates at most one intent

None == "None"

\* the statuses of the lifecycle
Lifecycle == {"queued", "ringing", "accepted", "completed", "missed", "declined", "failed"}

\* CallStatusUpdateRequest.status is any string: the lifecycle's, the alias
\* "ended" that apply_status_transition knows, and one it does not know
RequestStatuses == Lifecycle \cup {"ended", "bogus"}

\* CallStatusUpdateRequest.end_reason
RequestReasons == {None, "client_hangup"}

\* OutboundCallIntent: the columns the lifecycle writes
NewIntent(reminder_id) ==
  [status |-> "queued", ringing_at |-> 0, accepted_at |-> 0, ended_at |-> 0,
   end_reason |-> None, reminder_id |-> reminder_id]

NoRow == [status |-> "absent", ringing_at |-> 0, accepted_at |-> 0, ended_at |-> 0,
          end_reason |-> None, reminder_id |-> None]

\* `end_reason` alone, without the `or status` (a variant used to test the claims)
OrElse_first_only(a, b) == a

\* Python's `end_reason or status`
OrElse(a, b) == IF a \in {None, ""} THEN b ELSE a

\* apply_status_transition: the intent after it, and the metric it incremented
apply_status_transition(intent, status, end_reason, stamp) ==
  LET i1 == [intent EXCEPT !.status = status]
  IN  IF status = "ringing"
        THEN [intent |-> [i1 EXCEPT !.ringing_at = stamp], metric |-> None]
      ELSE IF status = "accepted"
        THEN [intent |-> [i1 EXCEPT !.accepted_at = stamp], metric |-> "accepted"]
      ELSE IF status \in {"ended", "completed"}
        THEN [intent |-> [i1 EXCEPT !.ended_at = stamp, !.end_reason = end_reason],
              metric |-> "completed"]
      ELSE IF status \in {"missed", "declined", "failed"}
        THEN [intent |-> [i1 EXCEPT !.ended_at = stamp, !.end_reason = OrElse(end_reason, status)],
              metric |-> "missed"]
      ELSE [intent |-> i1, metric |-> None]

MetricsAfter(m, metric) == IF metric = None THEN m ELSE _inc(m, metric)

IncsAfter(h, id, metric) ==
  IF metric = None THEN h ELSE [h EXCEPT ![id][metric] = @ + 1]

\* a session's commit of a loaded row: the UPDATE sets the columns whose value
\* differs from the one the session loaded
WriteDirty(row, base, obj) ==
  [f \in DOMAIN row |-> IF obj[f] # base[f] THEN obj[f] ELSE row[f]]

\* ids are taken in order as intents are flushed
NextIntentId ==
  1 + Cardinality({t \in Tasks : task[t].created})

IdleTask == [kind |-> "none", pc |-> "idle", call_id |-> 0, obj |-> NoRow, base |-> NoRow,
             status |-> None, reason |-> None, created |-> FALSE,
             voip |-> "none", alert |-> 0, live |-> 0, result |-> "none"]

\* the users row: absent, or with / without a VoIP token and an alert token
UserRows ==
  {[exists |-> FALSE, voip_token |-> FALSE, fcm_token |-> FALSE]}
    \cup {[exists |-> TRUE, voip_token |-> v, fcm_token |-> f] : v, f \in BOOLEAN}

\* the tables and tasks with the reminder row and the users row given
CallInitWith(reminder, userRow) ==
  /\ db_intents = [i \in IntentIds |-> NoRow]
  /\ db_reminder = reminder
  /\ user = userRow
  /\ task = [t \in Tasks |-> IdleTask]
  /\ now = 0
  /\ incs = [i \in IntentIds |-> [accepted |-> 0, completed |-> 0, missed |-> 0]]

\* a due reminder of either type, with any users row, or a job whose
\* reminders row is gone
CallInit ==
  \/ CallInitWith([exists |-> FALSE, is_completed |-> FALSE, reminder_type |-> "call"],
                  [exists |-> TRUE, voip_token |-> TRUE, fcm_token |-> TRUE])
  \/ \E ty \in {"call", "message"}, u \in UserRows :
    CallInitWith([exists |-> TRUE, is_completed |-> FALSE, reminder_type |-> ty], u)

\* `async with async_session() as db` left by an exception with the rows of
\* the session written (a variant used to test the claims)
Rollback_keeps_flushed(rows, rec) ==
  IF rec.created THEN [rows EXCEPT ![rec.call_id] = rec.obj] ELSE rows

\* `async with async_session() as db` left by an exception: the session is
\* closed without a commit and the rows it flushed are not in the table
Rollback(rows, rec) == rows

\* a task that has ended: its session and its locals are gone
Finished(rec, result) ==
  [rec EXCEPT !.pc = "done", !.obj = NoRow, !.base = NoRow, !.status = None,
              !.reason = None, !.result = result]

\* tasks are interchangeable: they start in order
MayStart(t) ==
  /\ task[t].pc = "idle"
  /\ \A t2 \in Tasks : t2 < t => task[t2].pc # "idle"

\* a transition applied by task t to its session's intent object
Transition(t, status, reason, pc) ==
  LET r == apply_status_transition(task[t].obj, status, reason, now + 1)
  IN  /\ task' = [task EXCEPT ![t].obj = r.intent, ![t].pc = pc]
      /\ now' = now + 1
      /\ CALL_METRICS' = MetricsAfter(CALL_METRICS, r.metric)
      /\ incs' = IncsAfter(incs, task[t].call_id, r.metric)

\* create_call_intent (the row is flushed, "scheduled" is counted) followed by
\* apply_status_transition(call_intent, "ringing")
CreateRinging(t, reminder_id, pc) ==
  LET id == NextIntentId
      r == apply_status_transition(NewIntent(reminder_id), "ringing", None, now + 1)
  IN  /\ task' = [task EXCEPT ![t].obj = r.intent, ![t].call_id = id,
                              ![t].created = TRUE, ![t].pc = pc]
      /\ now' = now + 1
      /\ CALL_METRICS' = MetricsAfter(_inc(CALL_METRICS, "scheduled"), r.metric)
      /\ incs' = IncsAfter(incs, id, r.metric)

\* the outcomes of `await send_voip_push(...)` seen by its caller, with the
\* metric each one has counted
VoipOutcomes == {"sent", "failed", "unconfigured", "raised"}

VoipMetrics(m, outcome) ==
  IF outcome = "sent" THEN _inc(m, "push_sent")
  ELSE IF outcome = "failed" THEN _inc(m, "push_failed")
  ELSE m

\* ---- trigger_reminder
\* the reminder is reloaded; the completed guard and the user lookup
FireLoad(t) ==
  /\ MayStart(t)
  /\ LET returns == ~db_reminder.exists \/ db_reminder.is_completed \/ ~user.exists
     IN  task' = [task EXCEPT ![t] = [IdleTask EXCEPT
                    !.kind = "fire",
                    !.pc = IF returns THEN "done" ELSE "fire_loaded",
                    !.result = IF returns THEN "skipped" ELSE "none"]]
  /\ UNCHANGED <<db_intents, db_reminder, user, now, incs, CALL_METRICS, notCall>>

\* where trigger_reminder goes once the pushes are behind it: the live send when
\* manager.is_online, else the commit
AfterPushes(online) == IF online THEN "fire_live" ELSE "fire_commit"

\* call-type reminder: the intent is created and set ringing, then the first
\* delivery is awaited
FireRing(t, online) ==
  /\ task[t].pc = "fire_loaded" /\ db_reminder.reminder_type = "call"
  /\ CreateRinging(t, "r1",
       IF user.voip_token THEN "fire_voip"
       ELSE IF user.fcm_token THEN "fire_alert"
       ELSE AfterPushes(online))
  /\ (user.voip_token \/ user.fcm_token) => ~online   \* is_online is not read in this step
  /\ UNCHANGED <<db_intents, db_reminder, user, notCall>>

\* message-type reminder: live send when online, else the alert push
FireMessage(t, online) ==
  /\ task[t].pc = "fire_loaded" /\ db_reminder.reminder_type # "call"
  /\ task' = [task EXCEPT ![t].pc = IF online THEN "fire_live"
                                   ELSE IF user.fcm_token THEN "fire_alert"
                                   ELSE "fire_commit"]
  /\ UNCHANGED <<db_intents, db_reminder, user, now, incs, CALL_METRICS, notCall>>

\* `await send_voip_push` returns or raises (the exception leaves trigger_reminder:
\* the session is closed without a commit)
FireVoip(t, outcome, online) ==
  /\ task[t].pc = "fire_voip"
  /\ CALL_METRICS' = VoipMetrics(CALL_METRICS, outcome)
  /\ task' = [task EXCEPT ![t] =
                IF outcome = "raised"
                  THEN Finished([task[t] EXCEPT !.voip = outcome], "raised")
                  ELSE [task[t] EXCEPT !.voip = outcome,
                          !.pc = IF outcome # "sent" /\ user.fcm_token THEN "fire_alert"
                                 ELSE AfterPushes(online)]]
  /\ (outcome = "raised" \/ (outcome # "sent" /\ user.fcm_token)) => ~online
  /\ db_intents' = IF outcome = "raised" THEN Rollback(db_intents, task[t]) ELSE db_intents
  /\ UNCHANGED <<db_reminder, user, now, incs, notCall>>

\* `await send_notification_pubsub` returns or raises
FireAlert(t, raised, online) ==
  /\ task[t].pc = "fire_alert"
  /\ task' = [task EXCEPT ![t] =
                IF raised
                  THEN Finished(task[t], "raised")
                  ELSE [task[t] EXCEPT !.alert = @ + 1,
                          !.pc = IF db_reminder.reminder_type = "call" THEN AfterPushes(online)
                                 ELSE "fire_commit"]]
  /\ (raised \/ db_reminder.reminder_type # "call") => ~online
  /\ db_intents' = IF raised THEN Rollback(db_intents, task[t]) ELSE db_intents
  /\ UNCHANGED <<db_reminder, user, now, incs, CALL_METRICS, notCall>>

\* `await manager.send_to_user` returns its delivered count
FireLive(t, delivered) ==
  /\ task[t].pc = "fire_live"
  /\ task' = [task EXCEPT ![t].live = delivered, ![t].pc = "fire_commit"]
  /\ UNCHANGED <<db_intents, db_reminder, user, now, incs, CALL_METRICS, notCall>>

\* reminder.is_completed = True; await db.commit(): the new intent row and the flag.
\* The UPDATE of a reminders row that was deleted meanwhile matches no row: the
\* commit raises and the session is closed without it.
FireCommit(t) ==
  /\ task[t].pc = "fire_commit"
  /\ IF db_reminder.exists
       THEN /\ db_reminder' = [db_reminder EXCEPT !.is_completed = TRUE]
            /\ db_intents' = IF task[t].created
                               THEN [db_intents EXCEPT ![task[t].call_id] = task[t].obj]
                               ELSE db_intents
            /\ task' = [task EXCEPT ![t] = Finished(task[t], "completed")]
       ELSE /\ db_reminder' = db_reminder
            /\ db_intents' = Rollback(db_intents, task[t])
            /\ task' = [task EXCEPT ![t] = Finished(task[t], "raised")]
  /\ UNCHANGED <<user, now, incs, CALL_METRICS, notCall>>

\* ---- the reminder's timer and its cancellation
\* schedule_reminder has added the reminder's date-triggered job
TimerInit == reminder_job = "scheduled"

\* the trigger time is reached: the scheduler starts the job's coroutine and
\* drops the job, whose trigger has no later run time
TimerDue ==
  /\ reminder_job = "scheduled"
  /\ reminder_job' = "submitted"
  /\ UNCHANGED <<callVars, notTimer>>

\* the coroutine the scheduler started runs trigger_reminder, once
TimerFire(t) ==
  /\ reminder_job = "submitted"
  /\ \A t2 \in Tasks : task[t2].kind # "fire"
  /\ FireLoad(t)

\* scheduler.remove_job(str(id)) inside try / except: a job that is no longer
\* in the store raises JobLookupError, which is passed over
JobAfterRemove(job) == IF job = "scheduled" THEN "removed" ELSE job

CancelKinds == {"cancel_schedule", "delete_schedule"}

\* the row the cancellation looks for: cancel_schedule selects the user's call
\* reminders that are not completed, DELETE /schedules/{id} the row by id
CancelFinds(kind, row) ==
  IF kind = "cancel_schedule"
    THEN row.exists /\ ~row.is_completed /\ row.reminder_type = "call"
    ELSE row.exists

\* the cancellation's SELECT
CancelLoad(t, kind) ==
  /\ MayStart(t)
  /\ LET found == CancelFinds(kind, db_reminder)
     IN  task' = [task EXCEPT ![t] = [IdleTask EXCEPT
                    !.kind = kind,
                    !.pc = IF found THEN "cancel_found" ELSE "done",
                    !.result = IF found THEN "none" ELSE "not_found"]]
  /\ UNCHANGED <<db_intents, db_reminder, user, now, incs, reminder_job, notTimer>>

\* remove_job, then the row is marked completed (cancel_schedule) or deleted
\* (DELETE) in the caller's session, and success is returned
CancelApply(t) ==
  /\ task[t].pc = "cancel_found"
  /\ reminder_job' = JobAfterRemove(reminder_job)
  /\ task' = [task EXCEPT ![t].pc = "cancel_commit", ![t].result = "success"]
  /\ UNCHANGED <<db_intents, db_reminder, user, now, incs, notTimer>>

\* the caller's commit: the end of the agent's turn for the tool, the end of the
\* request for DELETE
CancelCommit(t) ==
  /\ task[t].pc = "cancel_commit"
  /\ db_reminder' = IF ~db_reminder.exists THEN db_reminder
                    ELSE IF task[t].kind = "cancel_schedule"
                      THEN [db_reminder EXCEPT !.is_completed = TRUE]
                    ELSE [db_reminder EXCEPT !.exists = FALSE]
  /\ task' = [task EXCEPT ![t] = Finished(task[t], "success")]
  /\ UNCHANGED <<db_intents, user, now, incs, reminder_job, notTimer>>

\* ---- _execute_call_now
CallNowCreate(t) ==
  /\ MayStart(t)
  /\ IF ~user.exists
       THEN /\ task' = [task EXCEPT ![t] = [IdleTask EXCEPT !.kind = "call_now", !.pc = "done",
                                                            !.result = "error"]]
            /\ UNCHANGED <<now, incs, CALL_METRICS>>
       ELSE LET id == NextIntentId
                r == apply_status_transition(NewIntent(None), "ringing", None, now + 1)
            IN  /\ task' = [task EXCEPT ![t] = [IdleTask EXCEPT !.kind = "call_now",
                                 !.obj = r.intent, !.call_id = id, !.created = TRUE,
                                 !.pc = "cn_commit1"]]
                /\ now' = now + 1
                /\ CALL_METRICS' = MetricsAfter(_inc(CALL_METRICS, "scheduled"), r.metric)
                /\ incs' = IncsAfter(incs, id, r.metric)
  /\ UNCHANGED <<db_intents, db_reminder, user, notCall>>

\* the first `await db.commit()`; without a VoIP token the failure transition
\* follows at once
CallNowCommit1(t) ==
  /\ task[t].pc = "cn_commit1"
  /\ db_intents' = [db_intents EXCEPT ![task[t].call_id] = task[t].obj]
  /\ IF user.voip_token
       THEN /\ task' = [task EXCEPT ![t].pc = "cn_voip", ![t].base = task[t].obj]
            /\ UNCHANGED <<now, incs, CALL_METRICS>>
       ELSE LET r == apply_status_transition(task[t].obj, "failed", "voip_push_failed", now + 1)
            IN  /\ task' = [task EXCEPT ![t].pc = "cn_commit2", ![t].base = task[t].obj,
                                        ![t].obj = r.intent]
                /\ now' = now + 1
                /\ CALL_METRICS' = MetricsAfter(CALL_METRICS, r.metric)
                /\ incs' = IncsAfter(incs, task[t].call_id, r.metric)
  /\ UNCHANGED <<db_reminder, user, notCall>>

\* `await send_voip_push` returns or raises
CallNowVoip(t, outcome) ==
  /\ task[t].pc = "cn_voip"
  /\ IF outcome \in {"sent", "raised"}
       THEN /\ task' = [task EXCEPT ![t] = Finished([task[t] EXCEPT !.voip = outcome],
                                             IF outcome = "sent" THEN "success" ELSE "raised")]
            /\ CALL_METRICS' = VoipMetrics(CALL_METRICS, outcome)
            /\ UNCHANGED <<now, incs>>
       ELSE LET r == apply_status_transition(task[t].obj, "failed", "voip_push_failed", now + 1)
            IN  /\ task' = [task EXCEPT ![t].voip = outcome, ![t].pc = "cn_commit2",
                                        ![t].obj = r.intent]
                /\ now' = now + 1
                /\ CALL_METRICS' = MetricsAfter(VoipMetrics(CALL_METRICS, outcome), r.metric)
                /\ incs' = IncsAfter(incs, task[t].call_id, r.metric)
  /\ UNCHANGED <<db_intents, db_reminder, user, notCall>>

\* the second `await db.commit()`
CallNowCommit2(t) ==
  /\ task[t].pc = "cn_commit2"
  /\ db_intents' = [db_intents EXCEPT ![task[t].call_id] =
                      WriteDirty(@, task[t].base, task[t].obj)]
  /\ task' = [task EXCEPT ![t] = Finished(task[t], "failed")]
  /\ UNCHANGED <<db_reminder, user, now, incs, CALL_METRICS, notCall>>

\* ---- voice_call (routers/voice.py)
\* the socket is accepted and the intent named by ?call_id is looked up
VoiceLoad(t, call_id) ==
  /\ MayStart(t)
  /\ LET found == db_intents[call_id].status # "absent"
     IN  task' = [task EXCEPT ![t] = [IdleTask EXCEPT !.kind = "voice", !.call_id = call_id,
                     !.obj = db_intents[call_id], !.base = db_intents[call_id],
                     !.pc = IF found THEN "v_accept" ELSE "v_commit"]]
  /\ UNCHANGED <<db_intents, db_reminder, user, now, incs, CALL_METRICS, notCall>>

\* apply_status_transition(intent, "accepted")
VoiceAccept(t) ==
  /\ task[t].pc = "v_accept"
  /\ Transition(t, "accepted", None, "v_commit")
  /\ UNCHANGED <<db_intents, db_reminder, user, notCall>>

\* await db.commit()
VoiceCommit(t) ==
  /\ task[t].pc = "v_commit"
  /\ db_intents' = IF task[t].obj.status # "absent"
                     THEN [db_intents EXCEPT ![task[t].call_id] =
                             WriteDirty(@, task[t].base, task[t].obj)]
                     ELSE db_intents
  /\ task' = [task EXCEPT ![t].pc = "v_active", ![t].obj = NoRow, ![t].base = NoRow]
  /\ UNCHANGED <<db_reminder, user, now, incs, CALL_METRICS, notCall>>

\* the client sends end_call: the intent is looked up again in a new session
VoiceEndLoad(t) ==
  /\ task[t].pc = "v_active"
  /\ LET found == db_intents[task[t].call_id].status # "absent"
     IN  task' = [task EXCEPT ![t] =
                   IF found THEN [task[t] EXCEPT !.obj = db_intents[task[t].call_id],
                                                 !.base = db_intents[task[t].call_id],
                                                 !.pc = "v_end"]
                            ELSE Finished(task[t], "ended")]
  /\ UNCHANGED <<db_intents, db_reminder, user, now, incs, CALL_METRICS, notCall>>

\* apply_status_transition(intent, "completed", "user_end"); db.add(intent)
VoiceEndApply(t) ==
  /\ task[t].pc = "v_end"
  /\ Transition(t, "completed", "user_end", "v_close")
  /\ UNCHANGED <<db_intents, db_reminder, user, notCall>>

\* the `async with async_session()` block of end_call is left: no commit was
\* issued, the session is closed with its changes unwritten
VoiceEndClose(t) ==
  /\ task[t].pc = "v_close"
  /\ task' = [task EXCEPT ![t] = Finished(task[t], "ended")]
  /\ UNCHANGED <<db_intents, db_reminder, user, now, incs, CALL_METRICS, notCall>>

\* the client disconnects, or the upstream session ends: no transition
VoiceDisconnect(t) ==
  /\ task[t].pc = "v_active"
  /\ task' = [task EXCEPT ![t] = Finished(task[t], "disconnected")]
  /\ UNCHANGED <<db_intents, db_reminder, user, now, incs, CALL_METRICS, notCall>>

\* ---- PATCH /calls/{call_id}/status (routers/calls.py)
PatchLoad(t, call_id, status, reason) ==
  /\ MayStart(t)
  /\ LET found == db_intents[call_id].status # "absent"
     IN  task' = [task EXCEPT ![t] =
                   IF found
                     THEN [IdleTask EXCEPT !.kind = "patch", !.call_id = call_id,
                             !.status = status, !.reason = reason,
                             !.obj = db_intents[call_id], !.base = db_intents[call_id],
                             !.pc = "p_apply"]
                     ELSE [IdleTask EXCEPT !.kind = "patch", !.call_id = call_id,
                             !.pc = "done", !.result = "404"]]
  /\ UNCHANGED <<db_intents, db_reminder, user, now, incs, CALL_METRICS, notCall>>

\* apply_status_transition(intent, request.status, request.end_reason)
PatchApply(t) ==
  /\ task[t].pc = "p_apply"
  /\ Transition(t, task[t].status, task[t].reason, "p_commit")
  /\ UNCHANGED <<db_intents, db_reminder, user, notCall>>

\* the request's session is committed when the handler has returned
PatchCommit(t) ==
  /\ task[t].pc = "p_commit"
  /\ db_intents' = [db_intents EXCEPT ![task[t].call_id] =
                      WriteDirty(@, task[t].base, task[t].obj)]
  /\ task' = [task EXCEPT ![t] = Finished(task[t], "200")]
  /\ UNCHANGED <<db_reminder, user, now, incs, CALL_METRICS, notCall>>

CallNext ==
  \/ \E t \in Tasks : FireLoad(t)
  \/ \E t \in Tasks, online \in BOOLEAN : FireRing(t, online)
  \/ \E t \in Tasks, online \in BOOLEAN : FireMessage(t, online)
  \/ \E t \in Tasks, o \in VoipOutcomes, online \in BOOLEAN : FireVoip(t, o, online)
  \/ \E t \in Tasks, raised \in BOOLEAN, online \in BOOLEAN : FireAlert(t, raised, online)
  \/ \E t \in Tasks, delivered \in 0..1 : FireLive(t, delivered)
  \/ \E t \in Tasks : FireCommit(t)
  \/ \E t \in Tasks : CallNowCreate(t)
  \/ \E t \in Tasks : CallNowCommit1(t)
  \/ \E t \in Tasks, o \in VoipOutcomes : CallNowVoip(t, o)
  \/ \E t \in Tasks : CallNowCommit2(t)
  \/ \E t \in Tasks, id \in IntentIds : VoiceLoad(t, id)
  \/ \E t \in Tasks : VoiceAccept(t)
  \/ \E t \in Tasks : VoiceCommit(t)
  \/ \E t \in Tasks : VoiceEndLoad(t)
  \/ \E t \in Tasks : VoiceEndApply(t)
  \/ \E t \in Tasks : VoiceEndClose(t)
  \/ \E t \in Tasks : VoiceDisconnect(t)
  \/ \E t \in Tasks, id \in IntentIds, st \in RequestStatuses, re \in RequestReasons :
       PatchLoad(t, id, st, re)
  \/ \E t \in Tasks : PatchApply(t)
  \/ \E t \in Tasks : PatchCommit(t)

\* ------------------------------------------------------------ voice bridge
\* GeminiVoiceBridge.__init__, with the state of the upstream Live session:
\* none, connecting (inside __aenter__), open, dead (ended by the remote side,
\* the local context not yet left), closed (__aexit__ has run)
NewBridge == [_running |-> FALSE, session |-> None, _session_context |-> FALSE,
              upstream |-> "none", exits |-> 0]

IdleVoice == [pc |-> "idle", call_id |-> FALSE, recv |-> "none", send |-> "none",
              recv_cancel |-> FALSE, send_cancel |-> FALSE, client |-> "connected",
              end_call |-> FALSE, event |-> "none",
              valid |-> FALSE, code |-> 0, accepted |-> FALSE, transitioned |-> FALSE]

VoiceInit == bridge = NewBridge /\ vcall = IdleVoice

\* the positions at which a task is suspended in an await
RecvAwaits == {"receive", "end_db", "upstream_send"}
SendAwaits == {"receive", "sleep", "send_ws"}

TaskOver(pc) == pc \in {"done", "cancelled"}

\* `if self.session and self._running` of send_audio and end_user_turn
BridgeUsable(b) == b.session # None /\ b._running

\* `while self._running and self.session` of receive_audio
ReceiveLoopContinues(b) == b._running /\ b.session # None

\* close() that never leaves the session context (a variant used to test the claims)
NeedsExit_never(b) == FALSE

\* close(): `if self._session_context:`
NeedsExit(b) == b._session_context

\* `for task in pending: task.cancel()` cancelling nothing (a variant used to test the claims)
CancelPending_none(v) == v

\* `for task in pending: task.cancel()`
CancelPending(v) ==
  [v EXCEPT !.recv_cancel = ~TaskOver(v.recv), !.send_cancel = ~TaskOver(v.send)]

\* the finally block up to its first await: close() sets _running and either
\* awaits __aexit__ or, without a context, clears the fields and goes on to
\* websocket.close()
EnterFinally(v, b) ==
  IF NeedsExit(b)
    THEN [v |-> [v EXCEPT !.pc = "exiting"], b |-> [b EXCEPT !._running = FALSE]]
    ELSE [v |-> [v EXCEPT !.pc = "ws_close"],
          b |-> [b EXCEPT !._running = FALSE, !.session = None, !._session_context = FALSE]]

\* voice_call up to `await __aenter__()`. Without a user id the socket is closed
\* with code 4001 and the handler returns. Else the socket is accepted, the
\* intent named by ?call_id, when found, is set accepted and committed, the
\* bridge is built and start_session runs up to its await
VoiceCallStart(token, hasCallId, found) ==
  /\ vcall.pc = "idle"
  /\ ~hasCallId => ~found
  /\ LET user_id == _authenticate_ws(token)
     IN  IF user_id = "None"
           THEN /\ vcall' = [vcall EXCEPT !.pc = "rejected", !.valid = ValidToken(token),
                                          !.code = 4001]
                /\ UNCHANGED bridge
           ELSE /\ vcall' = [vcall EXCEPT !.pc = "entering", !.call_id = hasCallId,
                                          !.valid = ValidToken(token), !.accepted = TRUE,
                                          !.transitioned = found]
                /\ bridge' = [bridge EXCEPT !._running = TRUE, !._session_context = TRUE,
                                            !.upstream = "connecting"]
  /\ UNCHANGED notVoice

\* __aenter__ returns the session, or raises (the except and finally blocks follow)
VoiceEntered(ok) ==
  /\ vcall.pc = "entering"
  /\ IF ok
       THEN /\ bridge' = [bridge EXCEPT !.session = "session", !.upstream = "open"]
            /\ vcall' = [vcall EXCEPT !.pc = "send_ready"]
       ELSE LET f == EnterFinally([vcall EXCEPT !.event = "start_failed"],
                                  [bridge EXCEPT !.upstream = "none"])
            IN  bridge' = f.b /\ vcall' = f.v
  /\ UNCHANGED notVoice

\* `await websocket.send_text(ready)` returns (the two tasks are created and
\* asyncio.wait is entered) or raises
VoiceReady(ok) ==
  /\ vcall.pc = "send_ready"
  /\ IF ok
       THEN /\ vcall' = [vcall EXCEPT !.pc = "wait", !.recv = "receive", !.send = "receive"]
            /\ UNCHANGED bridge
       ELSE LET f == EnterFinally([vcall EXCEPT !.event = "ready_failed"], bridge)
            IN  bridge' = f.b /\ vcall' = f.v
  /\ UNCHANGED notVoice

\* ---- environment: the client goes away, the upstream session ends
ClientDisconnect ==
  /\ vcall.pc \in {"entering", "send_ready", "wait"} /\ vcall.client = "connected"
  /\ vcall' = [vcall EXCEPT !.client = "gone"]
  /\ UNCHANGED <<bridge, notVoice>>

UpstreamEnds ==
  /\ bridge.upstream = "open" /\ vcall.pc \in {"send_ready", "wait"}
  /\ bridge' = [bridge EXCEPT !.upstream = "dead"]
  /\ UNCHANGED <<vcall, notVoice>>

\* ---- receive_from_client
Frames == {"end_call", "user_turn_end", "audio", "malformed"}

\* `await websocket.receive()` returns a frame of the client
RecvFrame(frame) ==
  /\ vcall.recv = "receive" /\ ~vcall.recv_cancel /\ vcall.client = "connected"
  /\ vcall' =
       IF frame = "end_call"
         THEN IF vcall.call_id THEN [vcall EXCEPT !.end_call = TRUE, !.recv = "end_db"]
                               ELSE [vcall EXCEPT !.end_call = TRUE, !.recv = "done",
                                                  !.event = "end_call"]
       ELSE IF frame = "malformed"    \* json.loads raises out of the task
         THEN [vcall EXCEPT !.recv = "done", !.event = "malformed"]
       ELSE IF BridgeUsable(bridge)   \* send_audio / end_user_turn
         THEN [vcall EXCEPT !.recv = "upstream_send"]
       ELSE vcall
  /\ UNCHANGED <<bridge, notVoice>>

\* the client is gone: receive() hands over the disconnect message, which is
\* neither text nor bytes, and the next receive() raises out of the task
RecvDisconnect ==
  /\ vcall.recv = "receive" /\ ~vcall.recv_cancel /\ vcall.client = "gone"
  /\ vcall' = [vcall EXCEPT !.recv = "done", !.event = "disconnect"]
  /\ UNCHANGED <<bridge, notVoice>>

\* end_call with a call_id: the intent lookup and transition in a new session
\* end (or raise), then `break`
RecvEndDb(raised) ==
  /\ vcall.recv = "end_db" /\ ~vcall.recv_cancel
  /\ vcall' = [vcall EXCEPT !.recv = "done", !.event = "end_call"]
  /\ UNCHANGED <<bridge, notVoice>>

\* `await self.session.send_realtime_input(...)` returns or raises out of the task
RecvUpstreamSent(raised) ==
  /\ vcall.recv = "upstream_send" /\ ~vcall.recv_cancel
  /\ bridge.upstream = "dead" => raised
  /\ vcall' = IF raised THEN [vcall EXCEPT !.recv = "done", !.event = "upstream_send_raised"]
                        ELSE [vcall EXCEPT !.recv = "receive"]
  /\ UNCHANGED <<bridge, notVoice>>

\* the CancelledError of task.cancel() is raised at the task's await
RecvCancelled ==
  /\ vcall.recv \in RecvAwaits /\ vcall.recv_cancel
  /\ vcall' = [vcall EXCEPT !.recv = "cancelled"]
  /\ UNCHANGED <<bridge, notVoice>>

\* ---- send_to_client over bridge.receive_audio()
\* session.receive() yields a response that receive_audio turns into an item
SendItem ==
  /\ vcall.send = "receive" /\ ~vcall.send_cancel /\ bridge.upstream = "open"
  /\ vcall' = [vcall EXCEPT !.send = "send_ws"]
  /\ UNCHANGED <<bridge, notVoice>>

\* session.receive() raises: `except Exception` of receive_audio, which sleeps
\* and retries while _running
SendReceiveRaises ==
  /\ vcall.send = "receive" /\ ~vcall.send_cancel /\ bridge.upstream \in {"open", "dead"}
  /\ vcall' = [vcall EXCEPT !.send = IF ~bridge._running THEN "done" ELSE "sleep"]
  /\ UNCHANGED <<bridge, notVoice>>

\* asyncio.sleep(0.1) is over: `continue` to the while condition
SendWake ==
  /\ vcall.send = "sleep" /\ ~vcall.send_cancel
  /\ vcall' = [vcall EXCEPT !.send = IF ReceiveLoopContinues(bridge) THEN "receive" ELSE "done"]
  /\ UNCHANGED <<bridge, notVoice>>

\* `await websocket.send_bytes / send_text` returns, or raises into
\* send_to_client's `except Exception`
SendWs(ok) ==
  /\ vcall.send = "send_ws" /\ ~vcall.send_cancel
  /\ vcall' = IF ok THEN [vcall EXCEPT !.send = "receive"]
                    ELSE [vcall EXCEPT !.send = "done",
                            !.event = IF vcall.event = "none" THEN "client_send_failed" ELSE @]
  /\ UNCHANGED <<bridge, notVoice>>

SendCancelled ==
  /\ vcall.send \in SendAwaits /\ vcall.send_cancel
  /\ vcall' = [vcall EXCEPT !.send = "cancelled"]
  /\ UNCHANGED <<bridge, notVoice>>

\* ---- voice_call after asyncio.wait
\* the first task is done: the pending one is cancelled, the finally block starts
MainWake ==
  /\ vcall.pc = "wait" /\ (vcall.recv = "done" \/ vcall.send = "done")
  /\ LET f == EnterFinally(CancelPending(vcall), bridge)
     IN  bridge' = f.b /\ vcall' = f.v
  /\ UNCHANGED notVoice

\* `await self._session_context.__aexit__(...)` returns or raises (swallowed)
MainExited(raised) ==
  /\ vcall.pc = "exiting"
  /\ bridge' = [bridge EXCEPT !.session = None, !._session_context = FALSE,
                              !.upstream = "closed", !.exits = @ + 1]
  /\ vcall' = [vcall EXCEPT !.pc = "ws_close"]
  /\ UNCHANGED notVoice

\* `await websocket.close()` returns or raises (swallowed)
MainWsClosed ==
  /\ vcall.pc = "ws_close"
  /\ vcall' = [vcall EXCEPT !.pc = "done"]
  /\ UNCHANGED <<bridge, notVoice>>

VoiceNext ==
  \/ \E token \in Tokens, hasCallId \in BOOLEAN, found \in BOOLEAN :
       VoiceCallStart(token, hasCallId, found)
  \/ \E ok \in BOOLEAN : VoiceEntered(ok)
  \/ \E ok \in BOOLEAN : VoiceReady(ok)
  \/ ClientDisconnect
  \/ UpstreamEnds
  \/ \E frame \in Frames : RecvFrame(frame)
  \/ RecvDisconnect
  \/ \E raised \in BOOLEAN : RecvEndDb(raised)
  \/ \E raised \in BOOLEAN : RecvUpstreamSent(raised)
  \/ RecvCancelled
  \/ SendItem
  \/ SendReceiveRaises
  \/ SendWake
  \/ \E ok \in BOOLEAN : SendWs(ok)
  \/ SendCancelled
  \/ MainWake
  \/ \E raised \in BOOLEAN : MainExited(raised)
  \/ MainWsClosed

\* what the event loop and the libraries guarantee: an await of the handler or
\* of a task returns or raises, a cancelled task is resumed, a disconnect is
\* handed to receive(), and receive() on an ended upstream session raises.
\* What the client sends, and whether it ever hangs up, is not constrained.
VoiceFairness ==
  /\ WF_vars(\E ok \in BOOLEAN : VoiceEntered(ok))
  /\ WF_vars(\E ok \in BOOLEAN : VoiceReady(ok))
  /\ WF_vars(RecvDisconnect)
  /\ WF_vars(\E raised \in BOOLEAN : RecvEndDb(raised))
  /\ WF_vars(\E raised \in BOOLEAN : RecvUpstreamSent(raised))
  /\ WF_vars(RecvCancelled)
  /\ WF_vars(bridge.upstream = "dead" /\ SendReceiveRaises)
  /\ WF_vars(SendWake)
  /\ WF_vars(\E ok \in BOOLEAN : SendWs(ok))
  /\ WF_vars(SendCancelled)
  /\ WF_vars(MainWake)
  /\ WF_vars(\E raised \in BOOLEAN : MainExited(raised))
  /\ WF_vars(MainWsClosed)

\* ------------------------------------------------------- reminder scheduler
MaxReminders == 2      \* reminders rows in one run
MaxTime == 3           \* the clock runs from 0 to MaxTime
MaxStarts == 2         \* process starts in one run

ReminderIds == 1..MaxReminders

\* a datetime: wall-clock reading and tzinfo (None for a naive one, else the
\* offset from UTC)
Naive(n) == [wall |-> n, tzinfo |-> None]

\* datetime.utcnow()
utcnow == Naive(clock)

\* run_date.replace(tzinfo=timezone.utc) when run_date is naive
AsUtc(dt) == IF dt.tzinfo = None THEN [dt EXCEPT !.tzinfo = 0] ELSE dt

\* the instant an aware datetime denotes, on the UTC clock
Instant(dt) == dt.wall - dt.tzinfo

NoReminder == [exists |-> FALSE, is_completed |-> FALSE, trigger_at |-> Naive(0)]

\* f"reminder_{reminder.id}"
ReminderJobId(id) == <<"reminder_", id>>

\* scheduler.add_job(..., id=..., replace_existing=True) on the job list
add_job(jobs, id, run_date) ==
  IF \E k \in 1..Len(jobs) : jobs[k].id = id
    THEN [k \in 1..Len(jobs) |-> IF jobs[k].id = id THEN [id |-> id, run_date |-> run_date]
                                                    ELSE jobs[k]]
    ELSE Append(jobs, [id |-> id, run_date |-> run_date])

\* scheduler.remove_job(id); the JobLookupError of an unknown id is swallowed
\* by every caller
remove_job(jobs, id) == SelectSeq(jobs, LAMBDA j : j.id # id)

\* schedule_reminder
schedule_reminder(jobs, id, row) ==
  add_job(jobs, ReminderJobId(id), AsUtc(row.trigger_at))

\* load_pending_reminders' WHERE clause without the completed guard (a variant
\* used to test the claims)
IsPending_any_future(row, nowdt) ==
  row.exists /\ row.trigger_at.wall > nowdt.wall

\* load_pending_reminders' WHERE clause: is_completed == False and
\* trigger_at > utcnow(), both naive
IsPending(row, nowdt) ==
  row.exists /\ ~row.is_completed /\ row.trigger_at.wall > nowdt.wall

\* `for reminder in reminders: await schedule_reminder(reminder)` over the
\* rows of the query, in id order
RECURSIVE LoadFrom(_, _)
LoadFrom(jobs, id) ==
  IF id > MaxReminders THEN jobs
  ELSE LoadFrom(IF IsPending(reminders[id], utcnow)
                  THEN schedule_reminder(jobs, id, reminders[id]) ELSE jobs,
                id + 1)

SchedInit ==
  /\ reminders = [r \in ReminderIds |-> NoReminder]
  /\ scheduler = [running |-> FALSE, jobs |-> <<>>]
  /\ proc = [pc |-> "down", starts |-> 0]
  /\ clock = 0

\* lifespan: start_scheduler() of a new process, whose job store is empty
ProcessStart ==
  /\ proc.pc = "down" /\ proc.starts < MaxStarts
  /\ scheduler' = [running |-> TRUE, jobs |-> <<>>]
  /\ proc' = [pc |-> "loading", starts |-> proc.starts + 1]
  /\ UNCHANGED <<reminders, clock, notSched>>

\* load_pending_reminders: the query and the registration of its rows
LoadPending ==
  /\ proc.pc = "loading"
  /\ scheduler' = [scheduler EXCEPT !.jobs = LoadFrom(scheduler.jobs, 1)]
  /\ proc' = [proc EXCEPT !.pc = "loaded"]
  /\ UNCHANGED <<reminders, clock, notSched>>

\* the rest of the startup; the application serves
StartupDone ==
  /\ proc.pc = "loaded"
  /\ proc' = [proc EXCEPT !.pc = "serving"]
  /\ UNCHANGED <<reminders, scheduler, clock, notSched>>

\* the process ends (stop_scheduler, or a crash): its jobs are gone
ProcessStop ==
  /\ proc.pc \in {"loaded", "serving"}
  /\ scheduler' = [running |-> FALSE, jobs |-> <<>>]
  /\ proc' = [proc EXCEPT !.pc = "down"]
  /\ UNCHANGED <<reminders, clock, notSched>>

Tick ==
  /\ clock < MaxTime
  /\ clock' = clock + 1
  /\ UNCHANGED <<reminders, scheduler, proc, notSched>>

\* a reminder is created for a future instant (schedule_call tool, set_reminder
\* tool): the row is committed and registered
CreateReminder(id, at) ==
  /\ proc.pc = "serving" /\ ~reminders[id].exists
  /\ \A r \in ReminderIds : r < id => reminders[r].exists
  /\ at > clock
  /\ LET row == [exists |-> TRUE, is_completed |-> FALSE, trigger_at |-> Naive(at)]
     IN  /\ reminders' = [reminders EXCEPT ![id] = row]
         /\ scheduler' = [scheduler EXCEPT !.jobs = schedule_reminder(@, id, row)]
  /\ UNCHANGED <<proc, clock, notSched>>

\* a due job runs: the date-triggered job leaves the store, trigger_reminder
\* marks the reminder completed
JobFires(id) ==
  /\ proc.pc \in {"loaded", "serving"} /\ scheduler.running
  /\ \E k \in 1..Len(scheduler.jobs) :
       scheduler.jobs[k].id = ReminderJobId(id) /\ Instant(scheduler.jobs[k].run_date) <= clock
  /\ scheduler' = [scheduler EXCEPT !.jobs = remove_job(@, ReminderJobId(id))]
  /\ reminders' = IF reminders[id].exists /\ ~reminders[id].is_completed
                    THEN [reminders EXCEPT ![id].is_completed = TRUE] ELSE reminders
  /\ UNCHANGED <<proc, clock, notSched>>

\* cancel_schedule tool: the job is removed and the reminder marked completed
CancelReminder(id) ==
  /\ proc.pc = "serving" /\ reminders[id].exists /\ ~reminders[id].is_completed
  /\ scheduler' = [scheduler EXCEPT !.jobs = remove_job(@, ReminderJobId(id))]
  /\ reminders' = [reminders EXCEPT ![id].is_completed = TRUE]
  /\ UNCHANGED <<proc, clock, notSched>>

SchedNext ==
  \/ ProcessStart
  \/ LoadPending
  \/ StartupDone
  \/ ProcessStop
  \/ Tick
  \/ \E id \in ReminderIds, at \in 1..MaxTime : CreateReminder(id, at)
  \/ \E id \in ReminderIds : JobFires(id)
  \/ \E id \in ReminderIds : CancelReminder(id)

\* ------------------------------------------------------------ specifications
Init ==
  /\ PresenceInit
  /\ PushInit
  /\ LoopInit
  /\ VoiceInit
  /\ SchedInit
  /\ TurnInit
  /\ CtxInit
  /\ JobInit
  /\ TimerInit
  /\ CallInitWith([exists |-> TRUE, is_completed |-> FALSE, reminder_type |-> "call"],
                  [exists |-> TRUE, voip_token |-> TRUE, fcm_token |-> TRUE])

InitCall ==
  /\ PresenceInit
  /\ PushInit
  /\ LoopInit
  /\ VoiceInit
  /\ SchedInit
  /\ TurnInit
  /\ CtxInit
  /\ JobInit
  /\ TimerInit
  /\ CallInit

SpecPresence == Init /\ [][PresenceNext]_vars

SpecPush == Init /\ [][PushNext]_vars

SpecLoop == Init /\ [][LoopNext]_vars

SpecCall == InitCall /\ [][CallNext]_vars

\* the steps a started task takes by itself: each of its awaits returns or
\* raises. When a job fires, a tool is called, a request arrives or the client
\* opens, ends or drops the voice socket is not constrained.
TaskStep(t) ==
  \/ \E online \in BOOLEAN : FireRing(t, online)
  \/ \E online \in BOOLEAN : FireMessage(t, online)
  \/ \E o \in VoipOutcomes, online \in BOOLEAN : FireVoip(t, o, online)
  \/ \E raised \in BOOLEAN, online \in BOOLEAN : FireAlert(t, raised, online)
  \/ \E delivered \in 0..1 : FireLive(t, delivered)
  \/ FireCommit(t)
  \/ CallNowCommit1(t)
  \/ \E o \in VoipOutcomes : CallNowVoip(t, o)
  \/ CallNowCommit2(t)
  \/ VoiceAccept(t)
  \/ VoiceCommit(t)
  \/ VoiceEndApply(t)
  \/ VoiceEndClose(t)
  \/ PatchApply(t)
  \/ PatchCommit(t)

SpecCallFair == SpecCall /\ \A t \in Tasks : WF_vars(TaskStep(t))

SpecProactive == Init /\ [][ProactiveNext]_vars

SpecSched == Init /\ [][SchedNext]_vars

SpecTurn == Init /\ [][TurnNext]_vars

SpecCtx == Init /\ [][CtxNext]_vars

SpecJob == Init /\ [][JobNext]_vars

\* fires of the reminder's job alone, possibly overlapping
FireNext ==
  \/ \E t \in Tasks : FireLoad(t)
  \/ \E t \in Tasks, online \in BOOLEAN : FireRing(t, online)
  \/ \E t \in Tasks, online \in BOOLEAN : FireMessage(t, online)
  \/ \E t \in Tasks, o \in VoipOutcomes, online \in BOOLEAN : FireVoip(t, o, online)
  \/ \E t \in Tasks, raised \in BOOLEAN, online \in BOOLEAN : FireAlert(t, raised, online)
  \/ \E t \in Tasks, delivered \in 0..1 : FireLive(t, delivered)
  \/ \E t \in Tasks : FireCommit(t)

SpecFire == InitCall /\ [][FireNext]_vars

\* the reminder's timer, its fire and the cancellations of the reminder
CancelNext ==
  \/ TimerDue
  \/ \E t \in Tasks : TimerFire(t)
  \/ \E t \in Tasks, online \in BOOLEAN : FireRing(t, online)
  \/ \E t \in Tasks, online \in BOOLEAN : FireMessage(t, online)
  \/ \E t \in Tasks, o \in VoipOutcomes, online \in BOOLEAN : FireVoip(t, o, online)
  \/ \E t \in Tasks, raised \in BOOLEAN, online \in BOOLEAN : FireAlert(t, raised, online)
  \/ \E t \in Tasks, delivered \in 0..1 : FireLive(t, delivered)
  \/ \E t \in Tasks : FireCommit(t)
  \/ \E t \in Tasks, kind \in CancelKinds : CancelLoad(t, kind)
  \/ \E t \in Tasks : CancelApply(t)
  \/ \E t \in Tasks : CancelCommit(t)

SpecCancel == InitCall /\ [][CancelNext]_vars

\* the call_now tool alone, in overlapping runs
CallNowNext ==
  \/ \E t \in Tasks : CallNowCreate(t)
  \/ \E t \in Tasks : CallNowCommit1(t)
  \/ \E t \in Tasks, o \in VoipOutcomes : CallNowVoip(t, o)
  \/ \E t \in Tasks : CallNowCommit2(t)

SpecCallNow == InitCall /\ [][CallNowNext]_vars

\* the sockets of both endpoints: live-chat sockets open, register and close
\* while a voice call runs
HandshakeNext ==
  \/ \E c \in Conns, token \in Tokens : WsConnectBegin(c, token)
  \/ \E c \in Conns : WsConnectRegister(c)
  \/ \E c \in Conns : WsAcceptFail(c)
  \/ \E c \in Conns : WsDisconnect(c)
  \/ VoiceNext

SpecHandshake == Init /\ [][HandshakeNext]_vars

SpecVoice == Init /\ [][VoiceNext]_vars

SpecVoiceFair == SpecVoice /\ VoiceFairness

\* every await of a run returns: the model answers or fails, a tool call ends
SpecLoopFair == SpecLoop /\ WF_vars(LoopNext)

\* ------------------------------------------------------------------- claims
\* the edges of the call lifecycle
Terminal == {"completed", "missed", "declined", "failed"}

Edge(a, b) ==
  \/ a = "queued" /\ b = "ringing"
  \/ a = "ringing" /\ b = "accepted"
  \/ a = "accepted" /\ b = "completed"
  \/ a \in Lifecycle \ Terminal /\ b \in {"missed", "declined", "failed"}

\* C1: the status of a CallIntent (the stored row, and the object a handler
\* holds in its session) changes only along an edge of the lifecycle, whichever
\* entry point asks: a backward step, a skipped step, or a status outside the
\* lifecycle leaves it unchanged.
C1_OnlyLifecycleEdges ==
  [][/\ \A i \in IntentIds :
          (db_intents[i].status # "absent" /\ db_intents'[i].status # db_intents[i].status)
            => Edge(db_intents[i].status, db_intents'[i].status)
     /\ \A t \in Tasks :
          (/\ task[t].obj.status # "absent" /\ task'[t].obj.status # "absent"
           /\ task'[t].pc # "idle"
           /\ task'[t].obj.status # task[t].obj.status)
            => Edge(task[t].obj.status, task'[t].obj.status)]_vars

\* C2: once a CallIntent is terminal, no later transition attempt changes its
\* status, ended_at or end_reason (the first terminal outcome wins).
SameOutcome(a, b) ==
  a.status = b.status /\ a.ended_at = b.ended_at /\ a.end_reason = b.end_reason

C2_TerminalIsFinal ==
  [][/\ \A i \in IntentIds :
          db_intents[i].status \in Terminal => SameOutcome(db_intents[i], db_intents'[i])
     /\ \A t \in Tasks :
          (task[t].obj.status \in Terminal /\ task'[t].obj.status # "absent")
            => SameOutcome(task[t].obj, task'[t].obj)]_vars

\* C3: for one CallIntent the accepted counter is incremented at most once, and
\* the terminal-outcome counters (completed, missed) at most once in total.
C3_MetricsCountedOnce ==
  \A i \in IntentIds :
    /\ incs[i].accepted <= 1
    /\ incs[i].completed + incs[i].missed <= 1

\* C4: one run of the agent loop (live or proactive) executes at most 10 rounds
\* of tool calls, whatever the model answers, and terminates.
LoopCeiling == IF loop.kind = "proactive" THEN max_iterations_proactive ELSE max_iterations

C4_LoopTerminatesWithinCeiling ==
  /\ [](loop.rounds <= LoopCeiling /\ loop.invocations <= LoopCeiling + 1)
  /\ [](loop.pc \in {"invoke", "tool", "extended", "push"} => <>(loop.pc = "done"))

\* a live run that ended at the ceiling while the model still asked for tools
C4_Witness ==
  /\ loop.kind = "live" /\ loop.pc = "done" /\ ~loop.error
  /\ loop.rounds = max_iterations /\ loop.response # <<>>

\* C5: in one run of _react_loop the deliver-message effect
\* (_push_to_main_conversation creating and delivering a message) fires at
\* most once.
C5_AtMostOneDelivery == loop.kind = "proactive" => loop.delivered <= 1

\* C6: two fires of trigger_reminder for the same reminder, one after the other
\* or overlapping, create at most one CallIntent and deliver (push or live
\* frame) in at most one of them; when both have ended without an exception
\* the reminder is completed.
FireTasks == {t \in Tasks : task[t].kind = "fire"}

ReminderIntents == {i \in IntentIds : db_intents[i].reminder_id = "r1"}

FiresThatDelivered ==
  {t \in FireTasks : task[t].voip = "sent" \/ task[t].alert > 0 \/ task[t].live > 0}

C6_DuplicateFireOneEffect ==
  /\ Cardinality(ReminderIntents) <= 1
  /\ Cardinality(FiresThatDelivered) <= 1
  /\ (/\ user.exists /\ Cardinality(FireTasks) = 2
      /\ \A t \in FireTasks : task[t].pc = "done" /\ task[t].result # "raised")
       => db_reminder.is_completed

\* C7: a send_voip_push call with retries = 3 whose attempts all fail (a
\* non-success response or a transport exception) has returned false after
\* exactly 3 attempts, with push_failed one higher and push_sent unchanged.
AllAttemptsFailed == \A i \in 1..Len(push.outcomes) : push.outcomes[i] \in {"410", "exc"}

C7_ThreeFailuresCountOnce ==
  (push.pc = "done" /\ push.retries = DefaultRetries /\ push.jwt = 1 /\ AllAttemptsFailed)
    => /\ push.result = "false"
       /\ Len(push.outcomes) = 3
       /\ CALL_METRICS["push_failed"] = push.m0["push_failed"] + 1
       /\ CALL_METRICS["push_sent"] = push.m0["push_sent"]

C7_Witness ==
  /\ push.pc = "done" /\ push.retries = DefaultRetries /\ push.jwt = 1
  /\ AllAttemptsFailed /\ Len(push.outcomes) = 3
  /\ "exc" \in SeqElems(push.outcomes) /\ "410" \in SeqElems(push.outcomes)

\* C8: a disconnect or connect that interleaves with an in-flight send_to_user
\* never makes the sender raise, leaves no empty list in the presence map,
\* never re-registers a removed websocket, and the sender returns a count.
C8_SendSurvivesInterleaving ==
  /\ \A s \in Senders : ~snd[s].raised
  /\ \A u \in DOMAIN active_connections : active_connections[u] # <<>>
  /\ everRemoved \cap Registered(active_connections) = {}
  /\ \A s \in Senders : snd[s].pc = "done" => snd[s].delivered \in 0..Len(snd[s].snapshot)

\* a send_to_user has returned after a websocket of its snapshot was
\* disconnected by its endpoint while the send was in flight
C8_Witness ==
  \E s \in Senders :
    /\ snd[s].pc = "done" /\ snd[s].mid
    /\ \E c \in SeqElems(snd[s].snapshot) : c \in everRemoved /\ c \notin snd[s].pruned

\* C9: send_to_user returns the number of websockets whose send succeeded;
\* every websocket whose send failed is unregistered at return, and none whose
\* send succeeded was removed by send_to_user.
C9_DeliveredCountAndPruning ==
  \A s \in Senders : snd[s].pc = "done" =>
    /\ snd[s].delivered = Cardinality(snd[s].ok)
    /\ SeqElems(snd[s].snapshot) = snd[s].ok \cup SeqElems(snd[s].stale)
    /\ SeqElems(snd[s].stale) \cap Registered(active_connections) = {}
    /\ snd[s].ok \cap snd[s].pruned = {}

C9_Witness ==
  \E s \in Senders :
    /\ snd[s].pc = "done" /\ snd[s].delivered = 1
    /\ Len(snd[s].stale) = 1 /\ snd[s].pruned # {}

\* C10: a user is a key of active_connections iff at least one of its
\* websockets is registered (connected and not removed since), and is_online
\* is true exactly then.
HasConnection(u) ==
  \E c \in Conns : ws[c].user = u /\ ws[c].st = "open" /\ c \notin everRemoved

C10_NoEmptyEntry ==
  \A u \in Users :
    /\ DictHas(active_connections, u) <=> HasConnection(u)
    /\ is_online(active_connections, u) <=> HasConnection(u)
    /\ DictHas(active_connections, u) => Len(active_connections[u]) > 0

\* a user whose websockets were all removed again is no key
C10_Witness ==
  \E u \in Users :
    /\ ~DictHas(active_connections, u)
    /\ \E c \in everRemoved : ws[c].user = u
    /\ \E s \in Senders : snd[s].pc = "done" /\ snd[s].user = u /\ snd[s].pruned # {}

\* C11: send_to_user for a user without a registered connection returns 0
\* without raising and leaves active_connections as it was; and a call all of
\* whose sends failed returns 0 without raising.
C11_OfflineOrAllFailedReturnsZero ==
  [][\A s \in Senders :
       /\ (snd[s].pc = "idle" /\ snd'[s].pc = "done")
            => /\ snd'[s].delivered = 0 /\ ~snd'[s].raised
               /\ active_connections' = active_connections
       /\ (snd'[s].pc = "done" /\ snd'[s].ok = {})
            => snd'[s].delivered = 0 /\ ~snd'[s].raised]_vars

\* one call has returned for a user without connections, another after every
\* one of its sends failed
C11_Witness ==
  \E s1, s2 \in Senders :
    /\ snd[s1].pc = "done" /\ snd[s1].snapshot = <<>> /\ ~DictHas(active_connections, snd[s1].user)
    /\ snd[s2].pc = "done" /\ snd[s2].snapshot # <<>> /\ snd[s2].ok = {}
    /\ Len(snd[s2].stale) = Len(snd[s2].snapshot)

\* the bridge of a voice call: active while voice_call waits for its two tasks,
\* closed when voice_call has ended with both tasks over and the upstream
\* session context left
BridgeActive == vcall.pc = "wait"

BridgeClosed ==
  /\ vcall.pc = "done" /\ TaskOver(vcall.recv) /\ TaskOver(vcall.send)
  /\ bridge.upstream = "closed"

\* C12: once the client's end_call frame has been read in an active voice
\* session, receive_from_client and send_to_client both stop and the upstream
\* session is closed, exactly once.
C12_EndCallStopsBothClosesOnce ==
  /\ [](bridge.exits <= 1)
  /\ [](vcall.end_call => <>(BridgeClosed /\ bridge.exits = 1))

\* end_call ended the call: the inbound task returned, the outbound one was cancelled
C12_Witness ==
  /\ vcall.end_call /\ vcall.pc = "done" /\ vcall.event = "end_call"
  /\ vcall.recv = "done" /\ vcall.send = "cancelled" /\ bridge.exits = 1

\* C13: no voice_call ends with the upstream session it started opening still
\* open, whatever the exit path.
C13_NoSessionLeftOpen ==
  vcall.pc = "done" =>
    /\ bridge.upstream \in {"none", "closed"}
    /\ bridge.session = None /\ ~bridge._session_context
    /\ (vcall.event # "start_failed" => bridge.upstream = "closed")

\* a call ended by a malformed client frame, its session closed
C13_Witness ==
  vcall.pc = "done" /\ vcall.event = "malformed" /\ bridge.upstream = "closed"

\* C14: first-completed-wins for the three terminal events of an active bridge:
\* after a client disconnect, after end_call, and after the upstream session
\* has ended, both tasks are over and the bridge reaches Closed.
C14_AfterDisconnect == [](BridgeActive /\ vcall.client = "gone" => <>BridgeClosed)

C14_AfterEndCall == [](vcall.end_call => <>BridgeClosed)

C14_AfterUpstreamEnd == [](BridgeActive /\ bridge.upstream = "dead" => <>BridgeClosed)

C14_FirstCompletedWins ==
  C14_AfterDisconnect /\ C14_AfterEndCall /\ C14_AfterUpstreamEnd

\* C15: a fire of a due call-type reminder that completes leaves a CallIntent
\* linked to the reminder in status ringing; that intent then becomes accepted
\* when the client opens the voice channel with its call_id, and otherwise
\* eventually becomes missed (a timeout).
C15_FireLeavesRinging ==
  [][\A t \in Tasks :
       (task[t].pc = "fire_commit" /\ task'[t].pc = "done" /\ db_reminder.reminder_type = "call")
         => \E i \in IntentIds : /\ db_intents'[i].reminder_id = "r1"
                                 /\ db_intents'[i].status = "ringing"]_vars

C15_AcceptReachesAccepted ==
  \A t \in Tasks, i \in IntentIds :
    [](/\ task[t].pc = "v_accept" /\ task[t].call_id = i
       /\ db_intents[i].reminder_id = "r1" /\ db_intents[i].status = "ringing"
       => <>(db_intents[i].status = "accepted"))

C15_RingingAcceptedOrMissed ==
  \A i \in IntentIds :
    [](db_intents[i].reminder_id = "r1" /\ db_intents[i].status = "ringing"
       => <>(db_intents[i].status \in {"accepted", "missed"}))

C15_RingThenAcceptedOrMissed ==
  C15_FireLeavesRinging /\ C15_AcceptReachesAccepted /\ C15_RingingAcceptedOrMissed

\* C16: after a process start, when load_pending_reminders has returned, the
\* registered reminder jobs are exactly the stored reminders that are not
\* completed and whose trigger_at is in the future, each once, under the id
\* derived from its reminder id and at its trigger instant; jobs of the
\* process before are not among them.
PendingFuture(rs, t) ==
  {id \in ReminderIds : rs[id].exists /\ ~rs[id].is_completed /\ rs[id].trigger_at.wall > t}

JobsMatch(jobs, rs, t) ==
  /\ {jobs[k].id : k \in 1..Len(jobs)} = {ReminderJobId(id) : id \in PendingFuture(rs, t)}
  /\ \A k1, k2 \in 1..Len(jobs) : jobs[k1].id = jobs[k2].id => k1 = k2
  /\ \A k \in 1..Len(jobs), id \in ReminderIds :
       jobs[k].id = ReminderJobId(id) => Instant(jobs[k].run_date) = rs[id].trigger_at.wall

C16_ReloadRegistersExactlyPending ==
  [][(proc.pc = "loading" /\ proc'.pc = "loaded")
       => JobsMatch(scheduler'.jobs, reminders', clock')]_vars

\* a restart has loaded one reminder and left out a completed one
C16_Witness ==
  /\ proc.pc = "loaded" /\ proc.starts = 2
  /\ Len(scheduler.jobs) = 1
  /\ \E id \in ReminderIds : reminders[id].exists /\ reminders[id].is_completed
  /\ JobsMatch(scheduler.jobs, reminders, clock)

\* C17: a proactive trigger for a chat whose message_count has reached
\* max_messages does not enter the agent loop: no model invocation, no tool
\* execution, no delivery, and session_counter and message_count stay as they are.
C17_QuotaExhaustedSkipsLoop ==
  [][/\ (/\ loop.pc = "idle" /\ loop'.kind = "proactive"
         /\ pstate.exists /\ pstate.message_count >= max_messages)
          => /\ loop'.skipped /\ loop'.pc = "done"
             /\ loop'.invocations = 0 /\ loop'.rounds = 0
             /\ loop'.pushes = 0 /\ loop'.delivered = 0
             /\ pstate' = pstate
     /\ loop.skipped
          => /\ loop'.invocations = 0 /\ loop'.rounds = 0
             /\ loop'.pushes = 0 /\ loop'.delivered = 0
             /\ pstate' = pstate]_vars

\* a trigger was skipped with the counter exactly at max_messages
C17_Witness ==
  /\ loop.kind = "proactive" /\ loop.skipped /\ loop.pc = "done"
  /\ pstate.message_count = max_messages /\ pstate.session_counter > 0

\* C18: message_count stays within 0..max_messages, whatever the proactive
\* runs and the model's responses.
C18_MessageCountWithinQuota ==
  pstate.message_count >= 0 /\ pstate.message_count <= max_messages

\* C19: when the handling of an inbound user message on the live channel has
\* ended, the chat's message_count is 0.
C19_InboundMessageResetsCount ==
  (loop.kind = "live" /\ loop.pc = "done") => pstate.message_count = 0

\* C20: a proactive delivery sends the alert push only as a fallback: only
\* when the live send delivered to no connection and the chat is not muted.
C20_AlertOnlyWhenOfflineAndUnmuted ==
  loop.last.alert => (loop.last.live = 0 /\ ~loop.last.muted)

\* C21: every caller that rings a call through the VoIP push (the fire of a
\* call-type reminder, and the call_now tool) sends an alert push to the user's
\* alert token whenever the VoIP push returned false or the user has no VoIP
\* token, provided the user has an alert token.
RingFellBack(t) ==
  (/\ task[t].pc = "done" /\ task[t].created
   /\ task[t].result \notin {"raised", "skipped", "error"}
   /\ task[t].voip \in {"none", "failed", "unconfigured"}
   /\ user.fcm_token)
    => task[t].alert > 0

C21_FireFallsBack == \A t \in Tasks : task[t].kind = "fire" => RingFellBack(t)

C21_CallNowFallsBack == \A t \in Tasks : task[t].kind = "call_now" => RingFellBack(t)

C21_VoipFailureFallsBackToAlert == C21_FireFallsBack /\ C21_CallNowFallsBack

\* C22: in send_voip_push the first attempt answered with a 2xx status ends the
\* call with success: it returns true, no further attempt is made, push_sent
\* is incremented exactly once and push_failed is not incremented.
SuccessClass == {"200", "204"}

EndsWithSuccess(codes) ==
  \A o \in codes :
    (push.pc = "post" /\ push'.outcomes = Append(push.outcomes, o))
      => /\ push'.pc = "done" /\ push'.result = "true"
         /\ push'.attempt = push.attempt
         /\ CALL_METRICS'["push_sent"] = push.m0["push_sent"] + 1
         /\ CALL_METRICS'["push_failed"] = push.m0["push_failed"]

C22_Status200EndsWithSuccess == [][EndsWithSuccess({"200"})]_vars

C22_First2xxEndsWithSuccess == [][EndsWithSuccess(SuccessClass)]_vars

\* C23: send_voip_push never raises to its caller: with the credentials not
\* configured, with the signing key file missing, with a transport exception
\* on an attempt, and with a non-success response on every attempt, the call
\* ends by returning false.
PushFailureMode ==
  \/ push.jwt = 0
  \/ push.outcomes # <<>> /\ push.outcomes[Len(push.outcomes)] # "200"

C23_NeverRaisesReturnsFalse ==
  push.pc = "done" => /\ push.result # "raised"
                      /\ PushFailureMode => push.result = "false"

\* the three failure modes other than the missing key file return false
C23_OtherFailuresReturnFalse ==
  (push.pc = "done" /\ push.result # "raised" /\ PushFailureMode) => push.result = "false"

\* C24: a live-chat or voice WebSocket whose token is missing or invalid is
\* closed with close code 4001 without being accepted, and no state is made
\* for it: it is never registered in active_connections, no upstream voice
\* session is started, and no CallIntent is transitioned.
C24_BadTokenRejectedNoState ==
  /\ \A c \in Conns :
       (ws[c].st # "new" /\ ~ws[c].valid)
         => /\ ws[c].st = "rejected" /\ ws[c].code = 4001
            /\ c \notin Registered(active_connections) /\ c \notin everRemoved
  /\ (vcall.pc # "idle" /\ ~vcall.valid)
       => /\ vcall.pc = "rejected" /\ vcall.code = 4001 /\ ~vcall.accepted
          /\ bridge = NewBridge /\ ~vcall.transitioned
          /\ vcall.recv = "none" /\ vcall.send = "none"

\* a live-chat socket and a voice socket were both turned away, while another
\* live-chat socket with a good token is registered
C24_Witness ==
  /\ \E c \in Conns : ws[c].st = "rejected" /\ ws[c].code = 4001
  /\ \E c \in Conns : ws[c].st = "open" /\ c \in Registered(active_connections)
  /\ vcall.pc = "rejected" /\ vcall.code = 4001

\* C25: a tool call that raises, or that names a tool the loop does not know,
\* never aborts the agent loop (live or proactive): the failure becomes an
\* object with an error field, recorded as the result of that tool call, and
\* the loop goes on with the next tool call and the next model invocation.
ToolFailed(kind, call, msg) == msg.raised \/ ~KnownTool(kind, call.name)

\* the tool message built in the step that led to l
LatestToolMessage(l) ==
  IF l.pc = "extended" THEN l.appended[Len(l.appended)]
                       ELSE l.tool_messages[Len(l.tool_messages)]

C25_FailureIsErrorObservation ==
  [][loop.pc = "tool" =>
       LET call == loop.response[loop.idx]
           msg == LatestToolMessage(loop')
       IN  ToolFailed(loop.kind, call, msg)
             => /\ msg.tool_call_id = ToolCallId(loop.response, loop.idx)
                /\ msg.result.is_object /\ msg.result.error]_vars

C25_LoopGoesOnAfterToolCall ==
  [][/\ loop.pc = "tool"
          => /\ ~loop'.error
             /\ loop.idx < Len(loop.response) => loop'.pc = "tool" /\ loop'.idx = loop.idx + 1
             /\ loop.idx = Len(loop.response) => loop'.pc = "extended"
     /\ (loop.pc = "extended" /\ loop.kind = "live") => loop'.pc = "invoke"
     /\ (/\ loop.pc = "extended" /\ loop.kind = "proactive"
         /\ loop.messages_to_push = 0 /\ loop.iteration < max_iterations_proactive)
          => loop'.pc = "invoke"]_vars

C25_ToolFailureIsObservation ==
  C25_FailureIsErrorObservation /\ C25_LoopGoesOnAfterToolCall

\* C26: when the stream of a live chat turn fails (websocket_endpoint's branch
\* for a model failure is taken), the model is not invoked again in that
\* turn, the user is sent exactly one error frame, the text produced before
\* the failure is stored as the assistant message and reported in
\* message_complete, and the handler goes on to serve the next frame.
StreamFailed == turn.t.failure # "none"

C26_OneErrorFrameNoReinvocation ==
  StreamFailed =>
    /\ turn.pc \notin {"invoke", "stream"} /\ turn.t.invocations = 1
    /\ turn.t.stored.exists => turn.t.error_frames = 1

C26_HandlerGoesOn ==
  [][/\ (StreamFailed /\ turn.pc = "error_frame") => turn'.pc = "commit"
     /\ (StreamFailed /\ turn.pc = "complete") => turn'.pc = "receive"]_vars

C26_ProducedTextFlushed ==
  StreamFailed =>
    /\ turn.t.stored.exists => turn.t.stored.content = turn.t.produced
    /\ turn.t.complete.exists => turn.t.complete.content = turn.t.produced

Answers(msg, l, i) ==
  /\ msg.role = "tool"
  /\ msg.tool_call_id = ToolCallId(l.response, i)
  /\ msg.result = IF l.kind = "live" THEN execute_tool(l.response[i], msg.raised)
                                     ELSE _execute_tool(l.response[i], msg.raised)

C27_ExecutedInOrder ==
  loop.pc = "tool" =>
    /\ Len(loop.response) >= 1
    /\ Len(loop.tool_messages) = loop.idx - 1
    /\ \A i \in 1..(loop.idx - 1) : Answers(loop.tool_messages[i], loop, i)

C27_AllAppendedInOrder ==
  loop.pc = "extended" =>
    /\ Len(loop.appended) = Len(loop.response) + 1
    /\ loop.appended[1].role = "ai"
    /\ \A i \in 1..Len(loop.response) : Answers(loop.appended[i + 1], loop, i)

C27_InvokedAfterAppending ==
  [][/\ loop.pc = "tool" => loop'.pc \in {"tool", "extended"}
     /\ (loop.pc = "tool" /\ loop'.pc = "tool") => loop'.idx = loop.idx + 1
     /\ (loop.pc = "tool" /\ loop'.pc = "extended") => loop.idx = Len(loop.response)]_vars

C27_ToolResultsPairedInOrder ==
  /\ []C27_ExecutedInOrder
  /\ []C27_AllAppendedInOrder
  /\ C27_InvokedAfterAppending

C27_Witness ==
  /\ loop.pc = "extended" /\ Len(loop.response) = 2
  /\ loop.appended[2].tool_call_id = ToolCallId(loop.response, 1)
  /\ loop.appended[3].tool_call_id = ToolCallId(loop.response, 2)
  /\ loop.appended[3].raised

\* C28: after send_message_tool has executed successfully in a proactive run
\* the loop ends at once: the model is not invoked again, no further tool
\* call is executed in the run, and the queued message is then delivered.
MessageQueued == loop.kind = "proactive" /\ loop.messages_to_push > 0

C28_NoInvocationAfterQueueing ==
  [][MessageQueued => loop'.invocations = loop.invocations]_vars

C28_QueuedMessagePushed ==
  (MessageQueued /\ loop.pc = "done") => loop.pushes = loop.messages_to_push

C28_NoToolCallAfterQueueing == MessageQueued => loop.pc # "tool"

C28_SendMessageEndsLoop ==
  /\ C28_NoInvocationAfterQueueing
  /\ []C28_QueuedMessagePushed
  /\ []C28_NoToolCallAfterQueueing

\* C29: when the live loop hits the iteration ceiling (tools were requested in
\* all max_iterations rounds and the following response requests tools
\* again), the run stops: the tool calls of that last response are not
\* executed, the run is not retried, and the text produced, the text of that
\* last response included, is emitted.
AtCeiling ==
  loop.kind = "live" /\ loop.pc = "invoke" /\ loop.iteration = max_iterations

C29_CeilingStopsRun ==
  [][(AtCeiling /\ loop'.response # <<>> /\ ~loop'.error) =>
       /\ loop'.pc = "done"
       /\ loop'.rounds = loop.rounds /\ loop'.rounds = max_iterations
       /\ loop'.tool_messages = <<>> /\ loop'.appended = <<>>
       /\ loop'.invocations = loop.invocations + 1
       /\ loop'.flushed]_vars

StoppedAtCeiling ==
  /\ loop.kind = "live" /\ loop.pc = "done" /\ ~loop.error
  /\ loop.rounds = max_iterations /\ loop.response # <<>>

C29_NotRetried ==
  [][StoppedAtCeiling => (loop' = loop \/ loop' = IdleLoop)]_vars

C29_TextFlushedAtCeiling == StoppedAtCeiling => loop.flushed

StampedBy(i, stamp) ==
  /\ i.status = "ringing" => i.ringing_at = stamp
  /\ i.status = "accepted" => i.accepted_at = stamp
  /\ i.status \in Terminal => i.ended_at = stamp
  /\ i.status \in {"missed", "declined", "failed"} => i.end_reason \notin {None, ""}

TimesSet(i) ==
  /\ i.status = "ringing" => i.ringing_at > 0
  /\ i.status = "accepted" => i.accepted_at > 0
  /\ i.status \in Terminal => i.ended_at > 0

\* a step that applied a transition in task t's session
Transitioned(t) == now' # now /\ task'[t].obj # task[t].obj

C30_TransitionStampsFields ==
  [][\A t \in Tasks : Transitioned(t) =>
       /\ now' > 0 /\ StampedBy(task'[t].obj, now')
       /\ task[t].pc = "p_apply" =>
            /\ task'[t].obj.status = task[t].status
            /\ task[t].status \in {"missed", "declined", "failed"} =>
                 task'[t].obj.end_reason =
                   IF task[t].reason = None THEN task[t].status ELSE task[t].reason]_vars

C30_CommittedTimesSet == \A id \in IntentIds : TimesSet(db_intents[id])

C30_TransitionsStamp ==
  /\ C30_TransitionStampsFields
  /\ []C30_CommittedTimesSet

C30_Witness ==
  \E t \in Tasks, id \in IntentIds :
    /\ task[t].kind = "patch" /\ task[t].pc = "p_commit" /\ task[t].reason = None
    /\ task[t].obj.status = "missed" /\ task[t].obj.end_reason = "missed"
    /\ task[t].obj.ended_at = now /\ task[t].base.status = "ringing"
    /\ db_intents[id].status = "failed" /\ db_intents[id].end_reason = "voip_push_failed"
    /\ db_intents[id].ended_at > 0

\* C31: trigger_reminder marks the reminder completed only after the side
\* effect of the fire has been executed: is_completed becomes true strictly
\* after the intent creation, the pushes and the live send of that fire; a
\* fire that aborts before that point (reminder or user not found, reminder
\* already completed, the side effect raises) leaves is_completed as it was
\* and no intent of that fire is persisted.
EffectPcs == {"fire_loaded", "fire_voip", "fire_alert", "fire_live"}

Aborted(rec) == rec.kind = "fire" /\ rec.result \in {"skipped", "raised"}

C31_CompletedAfterEffects ==
  [][(db_reminder' # db_reminder) =>
       /\ ~db_reminder.is_completed /\ db_reminder'.is_completed
       /\ \E t \in Tasks :
            /\ task[t].kind = "fire" /\ task[t].pc = "fire_commit" /\ task'[t].pc = "done"
            /\ task'[t].result = "completed"
            /\ db_reminder.reminder_type = "call" =>
                 /\ task[t].created
                 /\ user.voip_token => task[t].voip \in {"sent", "failed", "unconfigured"}
                 /\ (~user.voip_token /\ user.fcm_token) => task[t].alert = 1]_vars

C31_EffectsBeforeCommit ==
  [][\A t \in Tasks :
       (task[t].kind = "fire" /\ task[t].pc \in EffectPcs) =>
          (task'[t] = task[t] \/ db_reminder' = db_reminder)]_vars

C31_AbortLeavesNoTrace ==
  [][\A t \in Tasks :
       (Aborted(task'[t]) /\ ~Aborted(task[t])) =>
          /\ db_reminder' = db_reminder /\ db_intents' = db_intents
          /\ task[t].created => db_intents[task[t].call_id].status = "absent"]_vars

C31_AbortedIntentNeverPersisted ==
  \A t \in Tasks :
    (Aborted(task[t]) /\ task[t].created) => db_intents[task[t].call_id].status = "absent"

C31_CompletedOnlyAfterSideEffect ==
  /\ C31_CompletedAfterEffects
  /\ C31_EffectsBeforeCommit
  /\ C31_AbortLeavesNoTrace
  /\ []C31_AbortedIntentNeverPersisted

C31_Witness ==
  \E t1, t2 \in Tasks :
    /\ task[t1].kind = "fire" /\ task[t1].result = "raised" /\ task[t1].created
    /\ db_intents[task[t1].call_id].status = "absent"
    /\ task[t2].kind = "fire" /\ task[t2].result = "completed" /\ task[t2].created
    /\ db_intents[task[t2].call_id].status = "ringing"
    /\ db_reminder.is_completed

C31_WitnessNotFound ==
  \E t \in Tasks : Aborted(task[t]) /\ ~db_reminder.exists /\ task[t].pc = "done"

\* C32: in send_voip_push the authorization token is built exactly once per
\* call whatever the number of attempts, at most `retries` attempts are
\* made, and the wait between attempt k and attempt k+1 is 0.25 * 2^(k-1)
\* seconds, with no wait after the last attempt.
RECURSIVE Pow2(_)
Pow2(n) == IF n = 0 THEN 1 ELSE 2 * Pow2(n - 1)

\* attempts of the call so far: those answered and the one in flight
Attempts == Len(push.outcomes) + (IF push.pc = "post" THEN 1 ELSE 0)

C32_TokenBuiltOnce ==
  /\ push.jwt <= 1
  /\ Attempts >= 1 => push.jwt = 1
  /\ [][(push.pc \in {"post", "sleep"}) => push'.jwt = push.jwt]_vars

C32_AtMostRetriesAttempts ==
  push.pc # "idle" => (Attempts <= push.retries /\ Attempts = push.attempt)

C32_WaitsDouble ==
  /\ \A k \in 1..Len(push.sleeps) : push.sleeps[k] = InitialBackoff * Pow2(k - 1)
  /\ push.pc \in {"post", "done"} /\ Attempts >= 1 => Len(push.sleeps) = Attempts - 1
  /\ push.pc = "sleep" => (Len(push.sleeps) = Attempts - 1 /\ Attempts < push.retries
                           /\ push.backoff = InitialBackoff * Pow2(Attempts - 1))

C32_OneTokenBoundedAttemptsBackoff ==
  /\ C32_TokenBuiltOnce
  /\ []C32_AtMostRetriesAttempts
  /\ []C32_WaitsDouble

C32_Witness ==
  /\ push.pc = "done" /\ push.result = "false" /\ push.retries = 4
  /\ Len(push.outcomes) = 4 /\ push.sleeps = <<1, 2, 4>> /\ push.jwt = 1

\* C33: a tool invoked by an agent-loop run for chat A executes against A's
\* own context, also when another run starts or is in progress between A's
\* model invocation and A's tool execution: no tool effect is applied to a
\* chat other than the one whose loop requested it.
C33_OtherModuleDoesNotInterfere ==
  [][\A r \in RunIds :
       (runs[r].pc = "tool" /\ runs'[r].pc = "invoke" /\
        \A r2 \in RunIds \ {r} : runs[r2].kind # runs[r].kind)
         => \A e \in effects' \ effects : e.applied = e.requested]_vars

C33_ToolRunsInOwnContext == \A e \in effects : e.applied = e.requested

\* C34: ProactiveState.session_counter never decreases and grows by exactly 1
\* for each proactive run that invokes the agent loop, so two runs of the
\* same chat never use the same session id, runs triggered close together
\* included.
EntersLoop == loop.pc = "idle" /\ loop'.kind = "proactive" /\ loop'.pc = "invoke"

C34_CounterStep ==
  [][/\ pstate'.session_counter >= pstate.session_counter
     /\ EntersLoop => /\ pstate'.session_counter = pstate.session_counter + 1
                      /\ loop'.session_id = pstate'.session_counter
     /\ ~EntersLoop => pstate'.session_counter = pstate.session_counter
     /\ loop.pc \notin {"idle", "done"} => loop'.session_id = loop.session_id]_vars

\* every id handed out so far is at most the counter, so a new id is a fresh one
C34_IdsBelowCounter ==
  loop.kind = "proactive" /\ loop.pc \notin {"idle", "done"} =>
    (loop.session_id = pstate.session_counter /\ loop.session_id >= 1)

InRun == loop.pc # "idle" /\ loop'.pc # "idle"

C35_CountFollowsDeliveries ==
  [][/\ InRun =>
          /\ pstate'.message_count - pstate.message_count = loop'.delivered - loop.delivered
          /\ loop'.delivered - loop.delivered \in {0, 1}
          /\ loop'.delivered # loop.delivered => (loop.pc = "push" /\ loop.user)
     /\ ~InRun => (pstate'.message_count = pstate.message_count /\ loop'.delivered = 0)]_vars

C35_UndeliveredPushCountsNothing ==
  [][(loop.pc = "push" /\ ~loop.user) =>
        (pstate' = pstate /\ loop'.delivered = loop.delivered)]_vars

C35_WitnessDelivered ==
  /\ loop.kind = "proactive" /\ loop.pc = "done" /\ loop.delivered = 1
  /\ pstate.message_count = 1 /\ pstate.session_counter = 1

\* C36: in trigger_proactive_bot an exception raised while processing one
\* chat does not propagate out of the job and does not stop the processing
\* of the bot's remaining chats; a missing or proactivity-disabled bot makes
\* the job return without processing any chat and without raising.
C36_NoBotNoWork ==
  [][\A bot \in BotRows \ {"enabled"} :
       JobFire(bot, 0) => (pjob'.pc = "done" /\ pjob'.result = "returned"
                           /\ pjob'.outcomes = <<>>)]_vars

C36_LastChatFailureIsCaught ==
  (pjob.pc = "done" /\ Len(pjob.outcomes) = pjob.n /\ pjob.n > 0 /\
   \A k \in 1..(pjob.n - 1) : pjob.outcomes[k] # "raised")
    => pjob.result = "returned"

C36_JobNeverRaises == pjob.result # "raised"

C36_AllChatsProcessed == pjob.pc = "done" => Len(pjob.outcomes) = pjob.n

C36_ChatFailureIsContained ==
  /\ C36_NoBotNoWork
  /\ []C36_JobNeverRaises
  /\ []C36_AllChatsProcessed

\* C37: when the client sends end_call on a voice session opened with a
\* call_id, the transition of that intent to completed with end_reason
\* user_end is durably stored: every later read of the intent observes
\* status completed, not accepted.
EndCallHandled(t) ==
  /\ task[t].kind = "voice" /\ task[t].pc = "v_close" /\ task'[t].pc = "done"
  /\ task[t].base.status = "accepted"

C37_AcceptIsStored ==
  [][\A t \in Tasks :
       (task[t].pc = "v_commit" /\ task'[t].pc = "v_active" /\ task[t].obj.status = "accepted") =>
          db_intents'[task[t].call_id].status = "accepted"]_vars

C37_EndCallIsStored ==
  [][\A t \in Tasks :
       EndCallHandled(t) =>
          /\ db_intents'[task[t].call_id].status = "completed"
          /\ db_intents'[task[t].call_id].end_reason = "user_end"]_vars

\* ---------------------------------------------------------------- C38
\* a cancellation of the reminder has returned success to its caller
CancelReturned ==
  \E c \in Tasks : task[c].kind \in CancelKinds /\ task[c].result = "success"

\* a step in which fire t creates a CallIntent, sends a push or delivers a live frame
SideEffect(t) ==
  /\ task[t].kind = "fire"
  /\ \/ ~task[t].created /\ task'[t].created
     \/ task[t].voip # "sent" /\ task'[t].voip = "sent"
     \/ task'[t].alert > task[t].alert
     \/ task[t].pc = "fire_live" /\ task'[t].live > 0

\* a job that remove_job took out of the store is never run
C38_RemovedJobNeverFires ==
  [](reminder_job = "removed" => \A t \in Tasks : task[t].kind # "fire")

\* a fire that starts after a cancellation was committed returns at its guard
C38_FireAfterCommitSkips ==
  [][\A t \in Tasks :
       (task[t].pc = "idle" /\ task'[t].kind = "fire"
          /\ \E c \in Tasks : task[c].kind \in CancelKinds /\ task[c].pc = "done"
                              /\ task[c].result = "success")
         => task'[t].result = "skipped"]_vars

\* a fire that starts after a cancellation returned success returns at its guard
C38_LaterFireIsNoOp ==
  [][\A t \in Tasks :
       (task[t].pc = "idle" /\ task'[t].kind = "fire" /\ CancelReturned)
         => task'[t].result = "skipped"]_vars

\* no fire creates an intent, pushes or sends a live frame after a cancellation
\* returned success
C38_NoSideEffectAfterSuccess ==
  [][CancelReturned => \A t \in Tasks : ~SideEffect(t)]_vars

\* C38: once a cancellation of the scheduled call (cancel_schedule, or DELETE
\* /schedules/{id}) has returned success, no later fire of the reminder produces
\* a side effect, also when the timer fires before the cancellation is committed
C38_CancelledReminderHasNoEffect ==
  /\ C38_LaterFireIsNoOp
  /\ C38_NoSideEffectAfterSuccess

\* ---------------------------------------------------------------- C39
\* a call_now run that has ended after creating its intent
CallNowEnded(t) ==
  task[t].kind = "call_now" /\ task[t].pc = "done" /\ task[t].created

\* a delivered push leaves the intent ringing and the tool returns success; a
\* returned failure leaves it failed with end_reason voip_push_failed
C39_ReturnedResultMatchesIntent ==
  \A t \in Tasks : CallNowEnded(t) =>
    /\ task[t].voip = "sent" =>
         task[t].result = "success" /\ db_intents[task[t].call_id].status = "ringing"
    /\ task[t].result = "success" => task[t].voip = "sent"
    /\ task[t].result = "failed" =>
         /\ db_intents[task[t].call_id].status = "failed"
         /\ db_intents[task[t].call_id].end_reason = "voip_push_failed"

\* no committed intent of call_now is queued
C39_NeverQueued ==
  \A i \in IntentIds : db_intents[i].status # "queued"

\* a push that was not delivered leaves the intent failed and the tool returns
\* success=false
C39_UndeliveredIsFailed ==
  \A t \in Tasks : (CallNowEnded(t) /\ task[t].voip # "sent") =>
    /\ task[t].result = "failed"
    /\ db_intents[task[t].call_id].status = "failed"
    /\ db_intents[task[t].call_id].end_reason = "voip_push_failed"

\* C39: call_now leaves its CallIntent consistent with its result: ringing and
\* success when the VoIP push was delivered, failed with end_reason
\* voip_push_failed and success=false when it was not, and never queued
C39_IntentConsistentWithResult ==
  /\ C39_ReturnedResultMatchesIntent
  /\ C39_NeverQueued
  /\ C39_UndeliveredIsFailed

\* ---------------------------------------------------------------- C40
\* the step in which fire t of a message-type reminder commits is_completed
MessageCompleted(t) ==
  /\ task[t].kind = "fire" /\ task[t].pc = "fire_commit"
  /\ db_reminder.reminder_type = "message"
  /\ task'[t].result = "completed"

\* any user: the reminder is completed only after a channel accepted it
C40_CompletedOnlyIfAccepted ==
  [][\A t \in Tasks : MessageCompleted(t) =>
       (task[t].live > 0 \/ task[t].alert > 0)]_vars

\* C40: a fired message-type reminder of a user with a push token is marked
\* completed only after a channel accepted it: when the user is online but no
\* live send succeeds, it is still pushed
C40_UndeliveredLiveIsPushed ==
  [][\A t \in Tasks : (MessageCompleted(t) /\ user.fcm_token) =>
       (task[t].live > 0 \/ task[t].alert > 0)]_vars

====
